---------------------------- MODULE Spec2Model ----------------------------
(***************************************************************************)
(* A model of pymola's AST (pymola/ast.py) and of its CasADi generator     *)
(* (pymola/backends/casadi/generator.py).                                  *)
(*                                                                         *)
(* The module holds five state machines over one set of variables:         *)
(*   SpecRef        ComponentRef: from_string, from_tuple, concatenate      *)
(*   SpecNode       Node.__init__ / Node.set_args                           *)
(*   SpecCollection Collection: extend, find_class and its lookup cache     *)
(*   SpecIf         Generator: the lowering of if-equations and expressions *)
(*   SpecGen        Generator: the listener callbacks of one tree walk      *)
(* Each specification moves its own variables and leaves the others at     *)
(* their idle values.                                                      *)
(***************************************************************************)
EXTENDS Integers, Sequences, FiniteSets, TLC

VARIABLES
    refCall,      \* ComponentRef: the call under evaluation (op and arguments)
    refRet,       \* ComponentRef: what the call returned or raised
    nodeCall,     \* Node: the constructor call under evaluation
    nodeRet,      \* Node: the node it produced or the error it raised
    files,        \* Collection.files
    class_lookup, \* Collection._class_lookup: None or the dictionary
    findRet,      \* Collection: the outcome of the most recent call
    ifCall,       \* Generator.exitIfEquation: the IfEquation being lowered
    ifRet,        \* Generator.exitIfEquation: src[tree] or the error raised
    ifEval,       \* the lowered expression evaluated under one valuation
    walk,         \* the tree walk: "walking", "done", or the error that ended it
    wstack,       \* the walker's recursion stack: the for-constructs entered
    ast,          \* the AST nodes reached so far; a node's id is its position
    mx,           \* the symbolic kernel's objects; a handle is a position
    src,          \* Generator.src: AST node id -> lowered value
    nodes,        \* Generator.nodes[current_class]
    derivative,   \* Generator.derivative: handle -> handle
    for_loops,    \* Generator.for_loops
    delayed_states, \* Generator.model.delayed_states
    inputs,       \* Generator.model.inputs
    entered_classes, \* Generator.entered_classes
    model,        \* Generator.model: the lists exitClass assigns
    sliceCall,    \* a Slice or the range of a for-loop about to be expanded
    sliceRet,     \* the values it expands to
    run1,         \* what an earlier run of generate on the same AST returned
    root_classes, \* Generator.root.classes: key -> function class
    functions,    \* Generator.functions
    function_src, \* the entries of Generator.src for the symbols of functions
    function_calls, \* the calls of get_function so far, with what they did
    heap,         \* the objects of the interpreter: ComponentRefs, Primaries
    aliasCall,    \* ComponentRef.concatenate(*args): the objects handed to it
    aliasRet,     \* the object it returned
    aliasPast,    \* the heap when it was called and when it returned
    finding       \* a call of find_class in progress: its locals and position

refVars == <<refCall, refRet>>
nodeVars == <<nodeCall, nodeRet>>
collVars == <<files, class_lookup, findRet>>
ifVars == <<ifCall, ifRet, ifEval>>
genVars == <<walk, wstack, ast, mx, src, nodes, derivative, for_loops,
             delayed_states, inputs, entered_classes, model>>

sliceVars == <<sliceCall, sliceRet>>
\* the variables of the state machines that are one call of one function
funVars == <<root_classes, functions, function_src, function_calls>>
aliasVars == <<heap, aliasCall, aliasRet, aliasPast>>
otherVars == <<sliceVars, run1, funVars, aliasVars, finding>>

vars == <<refVars, nodeVars, collVars, ifVars, genVars, otherVars>>

Pending == [kind |-> "pending"]
NoCall == [op |-> "none"]

\* The values the variables of a state machine keep while another one runs.
RefIdle == refCall = NoCall /\ refRet = Pending
NodeIdle == nodeCall = NoCall /\ nodeRet = Pending
CollIdle ==
    /\ files = <<>>
    /\ class_lookup = [isNone |-> TRUE, map |-> <<>>]
    /\ findRet = NoCall
IfIdle == ifCall = NoCall /\ ifRet = Pending /\ ifEval = Pending
SliceIdle == sliceCall = NoCall /\ sliceRet = Pending
NoRun == [kind |-> "none"]
FunIdle ==
    /\ root_classes = {} /\ functions = {} /\ function_src = {}
    /\ function_calls = <<>>
AliasIdle ==
    /\ heap = <<>> /\ aliasCall = NoCall /\ aliasRet = Pending
    /\ aliasPast = Pending
OtherIdle ==
    SliceIdle /\ run1 = NoRun /\ FunIdle /\ AliasIdle /\ finding = NoCall
\* Model(): every list empty
NewModel ==
    [states |-> <<>>, der_states |-> <<>>, alg_states |-> <<>>,
     constants |-> <<>>, parameters |-> <<>>, outputs |-> <<>>,
     equations |-> <<>>]
GenIdle ==
    /\ walk = "idle"
    /\ entered_classes = <<>> /\ model = NewModel
    /\ wstack = <<>> /\ ast = <<>> /\ mx = <<>> /\ src = {}
    /\ nodes = [names |-> {}, objects |-> {}]
    /\ derivative = {} /\ for_loops = <<>>
    /\ delayed_states = <<>> /\ inputs = <<>>

(***************************************************************************)
(* Bounds.                                                                 *)
(***************************************************************************)
MaxStrLen == 4      \* longest dotted string handed to from_string
MaxTupleLen == 3    \* longest tuple of names handed to from_tuple
MaxArgs == 3        \* most refs handed to concatenate
MaxRefLen == 2      \* longest path among the refs handed to concatenate

(***************************************************************************)
(* ComponentRef (ast.py:112-180).  A string is a sequence of characters;   *)
(* a name is a string.                                                     *)
(***************************************************************************)
Dot == "."
Chars == {"a", Dot}
Strings == UNION {[1..n -> Chars] : n \in 0..MaxStrLen}

\* The names tuples are built of: the empty name, plain names, a dotted name.
TupleNames == {<<>>, <<"a">>, <<"b">>, <<"a", Dot, "b">>}
Tuples == UNION {[1..n -> TupleNames] : n \in 0..MaxTupleLen}

\* ComponentRef(name=n, child=[]): indices keeps its default.
ComponentRef(n, ch) == [name |-> n, indices |-> <<>>, child |-> ch]

\* str.split('.'): every dot separates, empty pieces are kept.
RECURSIVE split(_)
split(s) ==
    IF \A i \in 1..Len(s) : s[i] # Dot
    THEN <<s>>
    ELSE LET i == CHOOSE k \in 1..Len(s) :
                      s[k] = Dot /\ \A j \in 1..(k - 1) : s[j] # Dot
         IN <<SubSeq(s, 1, i - 1)>> \o split(SubSeq(s, i + 1, Len(s)))

\* ".".join(t)
RECURSIVE join(_)
join(t) ==
    IF Len(t) = 0 THEN <<>>
    ELSE IF Len(t) = 1 THEN t[1]
    ELSE t[1] \o <<Dot>> \o join(Tail(t))

\* ComponentRef.to_tuple: the names along child[0], indices ignored.
RECURSIVE to_tuple(_)
to_tuple(r) ==
    IF Len(r.child) > 0
    THEN <<r.name>> \o to_tuple(r.child[1])
    ELSE <<r.name>>

\* ComponentRef.__str__
to_string(r) == join(to_tuple(r))

\* from_tuple without `c = c.child[0]`: every name is appended to the root
append_child_root(r, x) == [r EXCEPT !.child = Append(r.child, x)]

\* the node `c` of from_tuple's loop is the deepest node of component_ref:
\* c.child.append(x) there
RECURSIVE append_child_deepest(_, _)
append_child_deepest(r, x) ==
    IF Len(r.child) > 0
    THEN [r EXCEPT !.child = <<append_child_deepest(r.child[1], x)>>
                             \o Tail(r.child)]
    ELSE [r EXCEPT !.child = Append(r.child, x)]

RECURSIVE from_tuple_loop(_, _)
from_tuple_loop(r, rest) ==
    IF Len(rest) = 0 THEN r
    ELSE from_tuple_loop(append_child_deepest(r, ComponentRef(rest[1], <<>>)),
                         Tail(rest))

\* ComponentRef.from_tuple: components[0] raises IndexError on an empty tuple.
from_tuple(components) ==
    IF Len(components) = 0
    THEN [kind |-> "IndexError"]
    ELSE [kind |-> "ok",
          value |-> from_tuple_loop(ComponentRef(components[1], <<>>),
                                    Tail(components))]

\* ComponentRef.from_string
from_string(s) == from_tuple(split(s))

\* concatenate without the walk to the deepest child: n stays the root
set_child_root(r, b) == [r EXCEPT !.child = <<b>>]

\* `while n.child: n = n.child[0]` followed by `n.child = [b]`
RECURSIVE set_child_deepest(_, _)
set_child_deepest(r, b) ==
    IF Len(r.child) > 0
    THEN [r EXCEPT !.child = <<set_child_deepest(r.child[1], b)>>
                             \o Tail(r.child)]
    ELSE [r EXCEPT !.child = <<b>>]

RECURSIVE concatenate_loop(_, _)
concatenate_loop(a, rest) ==
    IF Len(rest) = 0 THEN a
    ELSE concatenate_loop(set_child_deepest(a, rest[1]), Tail(rest))

\* ComponentRef.concatenate(*args): args[0] raises IndexError without args.
concatenate(args) ==
    IF Len(args) = 0
    THEN [kind |-> "IndexError"]
    ELSE [kind |-> "ok", value |-> concatenate_loop(args[1], Tail(args))]

\* The refs handed to concatenate: paths of 1..MaxRefLen names, the head
\* with or without an index.
RefNames == {"a", "b"}
PlainRefs ==
    {from_tuple(t).value : t \in UNION {[1..n -> RefNames] : n \in 1..MaxRefLen}}
RefPool == PlainRefs \cup {[r EXCEPT !.indices = <<1>>] : r \in {from_tuple(<<"a">>).value}}
ArgLists == UNION {[1..n -> RefPool] : n \in 0..MaxArgs}

RefCalls ==
    {[op |-> "from_string", arg |-> s] : s \in Strings}
    \cup {[op |-> "from_tuple", arg |-> t] : t \in Tuples}
    \cup {[op |-> "concatenate", arg |-> a] : a \in ArgLists}

RefInit ==
    /\ refCall \in RefCalls
    /\ refRet = Pending
    /\ NodeIdle /\ CollIdle /\ IfIdle /\ GenIdle /\ OtherIdle

FromString ==
    /\ refCall.op = "from_string"
    /\ refRet = Pending
    /\ refRet' = from_string(refCall.arg)
    /\ UNCHANGED <<refCall, nodeVars, collVars, ifVars, genVars, otherVars>>

FromTuple ==
    /\ refCall.op = "from_tuple"
    /\ refRet = Pending
    /\ refRet' = from_tuple(refCall.arg)
    /\ UNCHANGED <<refCall, nodeVars, collVars, ifVars, genVars, otherVars>>

Concatenate ==
    /\ refCall.op = "concatenate"
    /\ refRet = Pending
    /\ refRet' = concatenate(refCall.arg)
    /\ UNCHANGED <<refCall, nodeVars, collVars, ifVars, genVars, otherVars>>

RefNext == FromString \/ FromTuple \/ Concatenate

SpecRef == RefInit /\ [][RefNext]_vars


(***************************************************************************)
(* Node.__init__ / Node.set_args (ast.py:62-70).  A node is its __dict__:  *)
(* a function from attribute names to values.  The declared fields of a    *)
(* kind are the attributes its __init__ assigns before it calls            *)
(* the base constructor.                                               *)
(***************************************************************************)
MaxKwargs == 2      \* most keywords handed to a constructor

NodeKinds == {"Primary", "ComponentRef", "Slice", "Equation",
              "ElementReplaceable", "Collection"}

\* the attributes assigned before super().__init__, with their defaults
declared_defaults(k) ==
    CASE k = "Primary" -> [value |-> "None"]
      [] k = "ComponentRef" -> [name |-> "''", indices |-> "[]", child |-> "[]"]
      [] k = "Slice" -> [start |-> "Primary(0)", stop |-> "Primary(-1)",
                         step |-> "Primary(1)"]
      [] k = "Equation" -> [left |-> "None", right |-> "None", comment |-> "''"]
      [] k = "ElementReplaceable" -> <<>>
      [] k = "Collection" -> [files |-> "[]"]

\* the attributes assigned after super().__init__ has returned
late_attributes(k) ==
    IF k = "Collection" THEN [_class_lookup |-> "None"] ELSE <<>>

\* '{:s} not valid arg'.format(key)
not_valid_arg(key) == <<key, " not valid arg">>

\* set_args without the membership test: every keyword becomes an attribute
RECURSIVE set_args_unchecked(_, _)
set_args_unchecked(d, kwargs) ==
    IF Len(kwargs) = 0 THEN [kind |-> "ok", dict |-> d]
    ELSE set_args_unchecked((kwargs[1][1] :> kwargs[1][2]) @@ d, Tail(kwargs))

\* Node.set_args: the keywords in order; the first one that is no attribute
\* of the node raises KeyError, the others are assigned.
RECURSIVE set_args(_, _)
set_args(d, kwargs) ==
    IF Len(kwargs) = 0 THEN [kind |-> "ok", dict |-> d]
    ELSE LET key == kwargs[1][1]
             val == kwargs[1][2]
         IN IF key \notin DOMAIN d
            THEN [kind |-> "KeyError", message |-> not_valid_arg(key)]
            ELSE set_args([d EXCEPT ![key] = val], Tail(kwargs))

\* K(kwargs...): the defaults, then Node.__init__, then the late attributes.
\* An exception leaves the caller without a node.
construct(k, kwargs) ==
    LET r == set_args(declared_defaults(k), kwargs)
    IN IF r.kind = "ok"
       THEN [kind |-> "ok", cls |-> k, dict |-> late_attributes(k) @@ r.dict]
       ELSE r

KwKeys == {"value", "name", "child", "files", "_class_lookup", "nme"}
KwVals == {"v1", "v2"}
\* keyword arguments: distinct keys, in the order written
KwargLists ==
    {kw \in UNION {[1..n -> KwKeys \X KwVals] : n \in 0..MaxKwargs} :
        \A i, j \in 1..Len(kw) : i # j => kw[i][1] # kw[j][1]}

NodeCalls == {[op |-> "construct", cls |-> k, kwargs |-> kw] :
                 k \in NodeKinds, kw \in KwargLists}

NodeInit ==
    /\ nodeCall \in NodeCalls
    /\ nodeRet = Pending
    /\ RefIdle /\ CollIdle /\ IfIdle /\ GenIdle /\ OtherIdle

Construct ==
    /\ nodeCall.op = "construct"
    /\ nodeRet = Pending
    /\ nodeRet' = construct(nodeCall.cls, nodeCall.kwargs)
    /\ UNCHANGED <<nodeCall, refVars, collVars, ifVars, genVars, otherVars>>

NodeNext == Construct

SpecNode == NodeInit /\ [][NodeNext]_vars


(***************************************************************************)
(* Collection (ast.py:399-497).  Class.classes and Class.symbols are       *)
(* ordered dictionaries: the sequence of their values.  A class object of  *)
(* the collection is named by where it sits, <<file, i1, i2, ...>>: the    *)
(* i1-th class of that file, its i2-th nested class, ...; <<>> names an    *)
(* object that is not part of the collection.  An optional value (None or  *)
(* x) and a list of at most one element are both <<>> or <<x>>.            *)
(***************************************************************************)
MaxFiles == 2       \* most files in the collection
MaxWithin == 2      \* deepest scope handed to find_class

Class(n, t, nested) ==
    [name |-> n, type |-> t, symbols |-> <<>>, classes |-> nested]
Symbol(n, t) == [name |-> n, type |-> t]
File(w, cs) == [within |-> w, classes |-> cs]

\* The files a parser may hand over: a model A, a type Real or a package P
\* holding a model A at the root, and a model A or such a package P declared
\* `within P`.
ModelA == Class("A", "model", <<>>)
PackageP == Class("P", "package", <<ModelA>>)
WithinP == <<from_tuple(<<"P">>).value>>
FilePool ==
    {File(<<>>, <<ModelA>>), File(<<>>, <<Class("Real", "type", <<>>)>>),
     File(<<>>, <<PackageP>>), File(WithinP, <<ModelA>>),
     File(WithinP, <<PackageP>>)}

RECURSIVE deref_class(_, _)
deref_class(c, path) ==
    IF Len(path) = 0 THEN c ELSE deref_class(c.classes[path[1]], Tail(path))

\* the class object named obj
deref(fs, obj) == deref_class(fs[obj[1]].classes[obj[2]], SubSeq(obj, 3, Len(obj)))

\* Collection._build_class_lookup_for_class: registers c under within + name
\* (a later registration of the same name replaces an earlier one), then its
\* nested classes under that name.
RECURSIVE build_class_lookup_for_class(_, _, _, _)
RECURSIVE build_nested(_, _, _, _, _)
build_class_lookup_for_class(lookup, c, obj, within) ==
    LET full_name ==
            IF Len(within) > 0
            THEN concatenate(<<within[1], ComponentRef(c.name, <<>>)>>).value
            ELSE ComponentRef(c.name, <<>>)
    IN build_nested((to_tuple(full_name) :> obj) @@ lookup,
                    c.classes, 1, obj, <<full_name>>)

\* for nested_c in c.classes.values()
build_nested(lookup, cs, i, obj, within) ==
    IF i > Len(cs) THEN lookup
    ELSE build_nested(
             build_class_lookup_for_class(lookup, cs[i], Append(obj, i), within),
             cs, i + 1, obj, within)

\* for f in self.files: within = f.within[0] if f.within else None
RECURSIVE build_files(_, _, _)
build_files(lookup, fs, i) ==
    IF i > Len(fs) THEN lookup
    ELSE build_files(
             build_nested(lookup, fs[i].classes, 1, <<i>>,
                          IF Len(fs[i].within) > 0
                          THEN <<fs[i].within[1]>> ELSE <<>>),
             fs, i + 1)

\* Collection._build_class_lookup
build_class_lookup(fs) == build_files(<<>>, fs, 1)

\* ast.py:441
BuiltinNames == {"Real", "Integer", "String", "Boolean"}
\* the elementary names without SI
ElementaryNamesWithoutSI == {"Real", "Integer", "Boolean", "String", "Modelica"}

\* ast.py:487
ElementaryNames == {"Real", "Integer", "Boolean", "String", "Modelica", "SI"}

\* ast.py:442-447: the synthetic class of a builtin type
builtin_class(n) ==
    [name |-> n, type |-> "__builtin",
     symbols |-> <<Symbol("__value", ComponentRef(n, <<>>))>>,
     classes |-> <<>>]

\* a lookup that tries the root before it walks the scope
RECURSIVE lookup_loop_walk(_, _, _, _)
lookup_loop_walk(map, within_tuple, cref_tuple, tried) ==
    LET key == within_tuple \o cref_tuple
    IN IF key \in DOMAIN map
       THEN [found |-> TRUE, c |-> map[key], prev_tuple |-> key,
             tried |-> Append(tried, key)]
       ELSE IF Len(within_tuple) > 0
       THEN lookup_loop_walk(map, SubSeq(within_tuple, 1, Len(within_tuple) - 1),
                             cref_tuple, Append(tried, key))
       ELSE [found |-> FALSE, c |-> <<>>, prev_tuple |-> key,
             tried |-> Append(tried, key)]

lookup_loop_root_first(map, within_tuple, cref_tuple, tried) ==
    IF cref_tuple \in DOMAIN map
    THEN [found |-> TRUE, c |-> map[cref_tuple], prev_tuple |-> cref_tuple,
          tried |-> Append(tried, cref_tuple)]
    ELSE lookup_loop_walk(map, within_tuple, cref_tuple, tried)

\* ast.py:473-483: one dictionary lookup per round, the scope one name
\* shorter each round; `tried` lists the keys looked up.
RECURSIVE lookup_loop(_, _, _, _)
lookup_loop(map, within_tuple, cref_tuple, tried) ==
    LET key == within_tuple \o cref_tuple
    IN IF key \in DOMAIN map
       THEN [found |-> TRUE, c |-> map[key], prev_tuple |-> key,
             tried |-> Append(tried, key)]
       ELSE IF Len(within_tuple) > 0
       THEN lookup_loop(map, SubSeq(within_tuple, 1, Len(within_tuple) - 1),
                        cref_tuple, Append(tried, key))
       ELSE [found |-> FALSE, c |-> <<>>, prev_tuple |-> key,
             tried |-> Append(tried, key)]

\* ast.py:485-497: what the lookup's outcome becomes
resolve_outcome(fs, r, component_ref, return_ref) ==
    IF ~r.found
    THEN IF component_ref.name \in ElementaryNames
         THEN [kind |-> "KeyError"]
         ELSE [kind |-> "ClassNotFoundError"]
    ELSE [kind |-> "return",
          c |-> [obj |-> r.c, val |-> deref(fs, r.c)],
          ref |-> IF return_ref THEN <<from_tuple(r.prev_tuple).value>>
                  ELSE <<>>]

\* ast.py:442-452: what the builtin short-circuit returns
builtin_return(component_ref, return_ref) ==
    [kind |-> "return",
     c |-> [obj |-> <<>>, val |-> builtin_class(component_ref.name)],
     ref |-> IF return_ref THEN <<ComponentRef(component_ref.name, <<>>)>>
             ELSE <<>>]

\* ast.py:454-497: build the lookup if there is none, then resolve
scope_resolution(fs, cl, component_ref, within, return_ref) ==
    LET cl2 == IF cl.isNone
               THEN [isNone |-> FALSE, map |-> build_class_lookup(fs)]
               ELSE cl
        within_tuple == IF Len(within) > 0 THEN to_tuple(within[1]) ELSE <<>>
        r == lookup_loop(cl2.map, within_tuple, to_tuple(component_ref), <<>>)
    IN [lookup |-> cl2, built |-> cl.isNone, tried |-> r.tried,
        ret |-> resolve_outcome(fs, r, component_ref, return_ref)]

\* find_class with the lookup built ahead of the builtin test
find_class_lookup_first(fs, cl, component_ref, within, check_builtin_classes, return_ref) ==
    LET r == scope_resolution(fs, cl, component_ref, within, return_ref)
    IN IF check_builtin_classes /\ component_ref.name \in BuiltinNames
       THEN [lookup |-> r.lookup, built |-> r.built, tried |-> <<>>,
             ret |-> builtin_return(component_ref, return_ref)]
       ELSE r

\* Collection.find_class: the outcome `ret`, the cache afterwards, whether
\* the call built the cache, and the keys it looked up.
find_class(fs, cl, component_ref, within, check_builtin_classes, return_ref) ==
    IF check_builtin_classes /\ component_ref.name \in BuiltinNames
    THEN [lookup |-> cl, built |-> FALSE, tried |-> <<>>,
          ret |-> builtin_return(component_ref, return_ref)]
    ELSE scope_resolution(fs, cl, component_ref, within, return_ref)

\* Collection.extend: self.files.extend(other.files)
extend(fs, cl, other_files) == [files |-> fs \o other_files, lookup |-> cl]

\* The references looked up and the scopes they are looked up from.
FindRefs == {from_tuple(t).value :
                t \in {<<"A">>, <<"Real">>, <<"SI">>, <<"P", "A">>}}
FindWithins ==
    {<<>>} \cup {<<from_tuple(t).value>> :
                    t \in UNION {[1..n -> {"P"}] : n \in 1..MaxWithin}}

CollInit ==
    /\ files \in UNION {[1..n -> FilePool] : n \in 0..1}
    /\ class_lookup = [isNone |-> TRUE, map |-> <<>>]
    /\ findRet = NoCall
    /\ RefIdle /\ NodeIdle /\ IfIdle /\ GenIdle /\ OtherIdle

FindClass ==
    \E component_ref \in FindRefs, within \in FindWithins,
       check_builtin_classes \in BOOLEAN, return_ref \in BOOLEAN :
        LET r == find_class(files, class_lookup, component_ref, within,
                            check_builtin_classes, return_ref)
        IN /\ class_lookup' = r.lookup
           /\ findRet' = [op |-> "find_class",
                          component_ref |-> component_ref,
                          within |-> within,
                          check_builtin_classes |-> check_builtin_classes,
                          return_ref |-> return_ref,
                          built |-> r.built, tried |-> r.tried, ret |-> r.ret]
           /\ UNCHANGED <<files, refVars, nodeVars, ifVars, genVars, otherVars>>

Extend ==
    \E other \in FilePool :
        /\ Len(files) < MaxFiles
        /\ LET r == extend(files, class_lookup, <<other>>)
           IN /\ files' = r.files
              /\ class_lookup' = r.lookup
        /\ findRet' = [op |-> "extend"]
        /\ UNCHANGED <<refVars, nodeVars, ifVars, genVars, otherVars>>

CollNext == FindClass \/ Extend

SpecCollection == CollInit /\ [][CollNext]_vars


(***************************************************************************)
(* Generator.exitIfEquation and Generator.exitIfExpression                 *)
(* (generator.py:285-297, 354-371).  The children of the node have been    *)
(* lowered when the walker exits it: src holds a condition c for the c-th  *)
(* condition and a scalar leaf i for the i-th equation or expression, in   *)
(* the order of the node's lists.  A lowered value is a column of scalar   *)
(* expressions; ca.if_else selects element by element.                     *)
(***************************************************************************)
MaxConds == 3       \* most conditions of an if
MaxIfItems == 8     \* most equations (expressions) of an if
MaxPerBranch == 3   \* most equations of one branch of an if-equation

leaf(i) == [op |-> "leaf", i |-> i]

\* seq[-k] of Python, k >= 1
neg_index(seq, k) == seq[Len(seq) - k + 1]

\* ca.vertcat of scalars: the column of them
vertcat(items) == items

\* ca.if_else(cond, a, b) on columns of one height
if_else(cond, a, b) ==
    [i \in 1..Len(a) |-> [op |-> "if_else", c |-> cond, t |-> a[i], e |-> b[i]]]

\* the kernel's value of a scalar expression: the leaf the conditions select
RECURSIVE eval_expr(_, _)
eval_expr(e, truth) ==
    IF e.op = "leaf" THEN e.i
    ELSE IF truth[e.c] THEN eval_expr(e.t, truth) ELSE eval_expr(e.e, truth)

\* an if_fold that takes the conditions first to last: the last one that
\* holds wins
RECURSIVE if_equation_fold_forward(_, _, _, _, _)
if_equation_fold_forward(conditions, equations, n, cond_index, acc) ==
    IF cond_index >= Len(conditions) THEN acc
    ELSE if_equation_fold_forward(conditions, equations, n, cond_index + 1,
             if_else(conditions[cond_index + 1],
                     vertcat([i \in 1..n |->
                                 neg_index(equations, n * (cond_index + 1) + i)]),
                     acc))

\* generator.py:364-369: for cond_index in range(len(tree.conditions))
RECURSIVE if_equation_fold(_, _, _, _, _)
if_equation_fold(conditions, equations, n, cond_index, acc) ==
    IF cond_index >= Len(conditions) THEN acc
    ELSE if_equation_fold(conditions, equations, n, cond_index + 1,
             if_else(neg_index(conditions, cond_index + 1),
                     vertcat([i \in 1..n |->
                                 neg_index(equations, n * (cond_index + 1) + i)]),
                     acc))

\* Generator.exitIfEquation
exitIfEquation(conditions, equations) ==
    IF Len(equations) % (Len(conditions) + 1) # 0
    THEN [kind |-> "AssertionError"]
    ELSE LET equations_per_condition == Len(equations) \div (Len(conditions) + 1)
         IN [kind |-> "ok",
             src |-> if_equation_fold(
                         conditions, equations, equations_per_condition, 0,
                         vertcat([i \in 1..equations_per_condition |->
                                     neg_index(equations, i)]))]

\* a fold of the if-expression that takes the conditions first to last
RECURSIVE if_expression_fold_forward(_, _, _, _)
if_expression_fold_forward(conditions, expressions, cond_index, acc) ==
    IF cond_index >= Len(conditions) THEN acc
    ELSE if_expression_fold_forward(conditions, expressions, cond_index + 1,
             if_else(conditions[cond_index + 1],
                     <<neg_index(expressions, cond_index + 2)>>, acc))

\* generator.py:291-295
RECURSIVE if_expression_fold(_, _, _, _)
if_expression_fold(conditions, expressions, cond_index, acc) ==
    IF cond_index >= Len(conditions) THEN acc
    ELSE if_expression_fold(conditions, expressions, cond_index + 1,
             if_else(neg_index(conditions, cond_index + 1),
                     <<neg_index(expressions, cond_index + 2)>>, acc))

\* Generator.exitIfExpression
exitIfExpression(conditions, expressions) ==
    IF Len(conditions) + 1 # Len(expressions)
    THEN [kind |-> "AssertionError"]
    ELSE [kind |-> "ok",
          src |-> if_expression_fold(conditions, expressions, 0,
                                     <<neg_index(expressions, 1)>>)]

\* the lowered children of an if with nconds conditions and nitems items
lowered_conditions(nconds) == [c \in 1..nconds |-> c]
lowered_items(nitems) == [i \in 1..nitems |-> leaf(i)]

\* the equations each branch of an if-equation was written with: the
\* node keeps them in one list, tree.equations, branch after branch
RECURSIVE branch_total(_)
branch_total(branches) ==
    IF branches = <<>> THEN 0
    ELSE branches[1] + branch_total(Tail(branches))

BranchCounts(nconds) ==
    {b \in [1..(nconds + 1) -> 0..MaxPerBranch] :
        branch_total(b) \in 1..MaxIfItems}

IfCalls ==
    {[op |-> "exitIfExpression", nconds |-> c, nitems |-> m, branches |-> <<>>] :
        c \in 1..MaxConds, m \in 1..MaxIfItems}
    \cup UNION {{[op |-> "exitIfEquation", nconds |-> c,
                  nitems |-> branch_total(b), branches |-> b] :
                    b \in BranchCounts(c)} : c \in 1..MaxConds}

IfInit ==
    /\ ifCall \in IfCalls
    /\ ifRet = Pending
    /\ ifEval = Pending
    /\ RefIdle /\ NodeIdle /\ CollIdle /\ GenIdle /\ OtherIdle

ExitIfEquation ==
    /\ ifCall.op = "exitIfEquation"
    /\ ifRet = Pending
    /\ ifRet' = exitIfEquation(lowered_conditions(ifCall.nconds),
                               lowered_items(ifCall.nitems))
    /\ UNCHANGED <<ifCall, ifEval, refVars, nodeVars, collVars, genVars, otherVars>>

ExitIfExpression ==
    /\ ifCall.op = "exitIfExpression"
    /\ ifRet = Pending
    /\ ifRet' = exitIfExpression(lowered_conditions(ifCall.nconds),
                                 lowered_items(ifCall.nitems))
    /\ UNCHANGED <<ifCall, ifEval, refVars, nodeVars, collVars, genVars, otherVars>>

\* the lowered column under one valuation of the conditions
Evaluate ==
    /\ ifRet # Pending
    /\ ifRet.kind = "ok"
    /\ ifEval = Pending
    /\ \E truth \in [1..ifCall.nconds -> BOOLEAN] :
          ifEval' = [kind |-> "value", truth |-> truth,
                     selected |-> [i \in 1..Len(ifRet.src) |->
                                      eval_expr(ifRet.src[i], truth)]]
    /\ UNCHANGED <<ifCall, ifRet, refVars, nodeVars, collVars, genVars, otherVars>>

IfNext == ExitIfEquation \/ ExitIfExpression \/ Evaluate

SpecIf == IfInit /\ [][IfNext]_vars

(***************************************************************************)
(* Generator: the listener callbacks of one tree walk                      *)
(* (generator.py:43-66, 74-84, 175-256, 323-352, 416-452, 454-581).        *)
(* The walked class declares Real x[2] and Real y.  An AST node is named   *)
(* by its position in ast; a kernel object by its position in mx.  A       *)
(* dictionary is the set of its <<key, value>> pairs.  A kernel name is    *)
(* the sequence of the pieces it is formatted from.                        *)
(***************************************************************************)
MaxTrees == 7     \* AST nodes reached in one walk, the class's symbols included
MaxDepth == 2     \* for-constructs nested in one another
MaxStop == 2      \* largest upper bound of a for-range
MaxEquationTrees == 9  \* AST nodes reached in one walk over equations
MaxStart == 3     \* largest start of a Slice
MaxStep == 3      \* largest step of a Slice
MaxSliceStop == 5 \* largest stop of a Slice
MaxCalls == 4     \* calls of get_function in one run
MaxAliasArgs == 3 \* most refs handed to concatenate on the heap

Ok == ""
has(d, k) == \E p \in d : p[1] = k
get(d, k) == (CHOOSE p \in d : p[1] = k)[2]
put(d, k, v) == {p \in d : p[1] # k} \cup {<<k, v>>}

\* A value of src: a kernel object (h > 0) or a plain Python value v.
MXObj(h) == [h |-> h, v |-> ""]
Value(v) == [h |-> 0, v |-> v]

\* int(tree.value) for the literals of the walked class
Digits == <<"0", "1", "2", "3", "4", "5", "6", "7", "8", "9">>
int(v) == (CHOOSE k \in 1..Len(Digits) : Digits[k] = v) - 1

NoIndex == [kind |-> "none", value |-> ""]
PrimaryIndex(v) == [kind |-> "Primary", value |-> v]
RefIndex(n) == [kind |-> "ComponentRef", value |-> n]
TreeNode(kind, name, index, operands, scope) ==
    [kind |-> kind, name |-> name, index |-> index, operands |-> operands,
     scope |-> scope]

\* A class under translation: its type, its symbols in the order of the
\* symbols dictionary, and how many statements and initial statements it has.
\* A symbol has a name, its prefixes, its dimensions and its order.
GenSymbol(name, prefixes, dims, order) ==
    [name |-> name, prefixes |-> prefixes, dimensions |-> dims,
     order |-> order]
GenClass(type, symbols, statements, initial_statements) ==
    [type |-> type, symbols |-> symbols, statements |-> statements,
     initial_statements |-> initial_statements]
\* model M  Real x[2];  Real y;  ...  end M
ModelM ==
    GenClass("model", <<GenSymbol("x", {}, <<"2">>, 1),
                        GenSymbol("y", {}, <<"1">>, 2)>>, 0, 0)

\* Generator.current_class
current_class == entered_classes[Len(entered_classes)]
\* current_class.symbols: name -> Symbol; the Symbol nodes are the first
\* nodes of ast, in the order of the dictionary
ClassSymbols ==
    {current_class.symbols[k].name : k \in 1..Len(current_class.symbols)}
SymbolTree(name) ==
    CHOOSE k \in 1..Len(current_class.symbols) :
        current_class.symbols[k].name = name
dimensions(name) == current_class.symbols[SymbolTree(name)].dimensions
ClassTrees(c) ==
    [k \in 1..Len(c.symbols) |->
        TreeNode("Symbol", c.symbols[k].name, NoIndex, <<>>, <<>>)]

\* The generator's tables as one value, threaded through the callbacks.
Tables ==
    [mx |-> mx, src |-> src, nodes |-> nodes, derivative |-> derivative,
     for_loops |-> for_loops, delayed_states |-> delayed_states,
     inputs |-> inputs]
Result(g, val, err) == [g |-> g, val |-> val, err |-> err]
\* the value of an expression over r, r an intermediate result computed once:
\* Only({e(r) : r \in {f(x)}}) is e(f(x))
Only(S) == CHOOSE e \in S : TRUE

\* ca.MX.sym(name, rows): a new symbol on every call
mx_sym(g, name, rows) ==
    Result([g EXCEPT !.mx = Append(@, [symbolic |-> TRUE, name |-> name,
                                       rows |-> rows])],
           Len(g.mx) + 1, Ok)

\* s[k]: a new object that is no symbol; the kernel refuses k outside s
mx_getitem(g, s, k) ==
    IF k < 0 \/ k >= g.mx[s].rows
    THEN Result(g, 0, "RuntimeError")
    ELSE Result([g EXCEPT !.mx = Append(@, [symbolic |-> FALSE, name |-> <<>>,
                                            rows |-> 1])],
                Len(g.mx) + 1, Ok)

\* a new object that is no symbol, the value of a composed expression
mx_expr(g, rows) ==
    Result([g EXCEPT !.mx = Append(@, [symbolic |-> FALSE, name |-> <<>>,
                                       rows |-> rows])],
           Len(g.mx) + 1, Ok)

\* the number of elements of a kernel object: a mapped loop body has columns
numel(o) == IF "cols" \in DOMAIN o THEN o.rows * o.cols ELSE o.rows

\* left - right, right a literal: a new object that is no symbol
mx_sub(g, left, right) ==
    Result([g EXCEPT !.mx = Append(@, [symbolic |-> FALSE, name |-> <<>>,
                                       rows |-> g.mx[left].rows,
                                       op |-> "sub", args |-> <<left, right>>])],
           Len(g.mx) + 1, Ok)

\* np.arange(start, stop, step) for a positive step
np_arange(start, stop, step) ==
    LET n == IF stop > start THEN (stop - start + step - 1) \div step ELSE 0
    IN [k \in 1..n |-> start + (k - 1) * step]

\* Generator.get_integer on a Primary or a ComponentRef.  The symbols of
\* the walked class are Reals, which the assertion refuses.
get_integer(g, index) ==
    IF index.kind = "Primary" THEN Result(g, int(index.value), Ok)
    ELSE IF index.value \notin ClassSymbols THEN Result(g, 0, "KeyError")
    ELSE Result(g, 0, "AssertionError")

\* Generator.get_shape: the symbols have at most one dimension
get_shape(name) ==
    IF dimensions(name) = <<>> THEN 1 ELSE int(dimensions(name)[1])

\* Generator.get_symbol
get_symbol(g, name) ==
    Only({Result([r.g EXCEPT !.nodes.names = put(@, name, r.val)], r.val, Ok) :
             r \in {mx_sym(g, <<name>>, get_shape(name))}})

\* Generator.get_mx on a Symbol
get_mx_symbol(g, name) ==
    IF has(g.src, SymbolTree(name))
    THEN Result(g, get(g.src, SymbolTree(name)).h, Ok)
    ELSE Only({Result([r.g EXCEPT !.src =
                              put(@, SymbolTree(name), MXObj(r.val))],
                      r.val, Ok) :
                  r \in {get_symbol(g, name)}})

\* ForLoop.register_indexed_symbol without an index expression
register_indexed_symbol(for_loop, e, tree) ==
    [for_loop EXCEPT !.indexed_symbols =
        Append(@, [e |-> e, tree |-> tree, indices |-> for_loop.values])]

\* Generator.get_indexed_symbol for a reference with one index: a placeholder
\* symbol when the index names an entered loop (the first such loop of
\* for_loops), the element s[index - 1] otherwise.
get_indexed_symbol(g, tree, name, index, s) ==
    LET named == {k \in 1..Len(g.for_loops) :
                     index.kind = "ComponentRef"
                     /\ g.for_loops[k].name = index.value}
    IN IF named # {}
       THEN Only({Result([r.g EXCEPT !.for_loops[k] =
                             register_indexed_symbol(@, r.val, tree)],
                         r.val, Ok) :
                     k \in {i \in named : \A j \in named : i <= j},
                     r \in {mx_sym(g, <<name, "[", index.value, "]">>, 1)}})
       ELSE Only({IF sl.err # Ok THEN sl ELSE mx_getitem(g, s, sl.val - 1) :
                     sl \in {get_integer(g, index)}})

\* model.time, created by the Model constructor, in the first run
TimeHandle == 1

\* Generator.get_component
get_component(g, tree, name, index) ==
    LET named == {k \in 1..Len(g.for_loops) : g.for_loops[k].name = name}
    IN IF name = "time" THEN Result(g, get(g.nodes.names, "time"), Ok)
       ELSE IF named # {}
       THEN Only({Result(g, g.for_loops[k].index_variable, Ok) :
                     k \in {i \in named : \A j \in named : i >= j}})
       ELSE IF name \notin ClassSymbols THEN Result(g, 0, "KeyError")
       ELSE Only({IF index.kind = "none" THEN s
                  ELSE get_indexed_symbol(s.g, tree, name, index, s.val) :
                     s \in {get_mx_symbol(g, name)}})

\* Generator.get_mx
get_mx(g, tree, node) ==
    IF has(g.src, tree) THEN Result(g, get(g.src, tree).h, Ok)
    ELSE IF node.kind = "Symbol" THEN get_mx_symbol(g, node.name)
    ELSE IF node.kind = "ComponentRef"
    THEN Only({IF r.err # Ok THEN r
               ELSE Result([r.g EXCEPT !.src = put(@, tree, MXObj(r.val))],
                           r.val, Ok) :
                  r \in {get_component(g, tree, node.name, node.index)}})
    ELSE Result(g, 0, "Exception")

\* Generator.exitPrimary
exitPrimary(g, tree, value) == [g EXCEPT !.src = put(@, tree, Value(value))]

\* Generator.exitExpression, operator der, once get_mx has returned orig: reuse
\* the entry of orig, or create the symbol der(<name>) and record it.  The
\* kernel gives a name to symbols only.
der(g, tree, orig) ==
    IF has(g.derivative, orig)
    THEN Result([g EXCEPT !.src = put(@, tree, MXObj(get(g.derivative, orig)))],
                get(g.derivative, orig), Ok)
    ELSE IF ~g.mx[orig].symbolic THEN Result(g, 0, "RuntimeError")
    ELSE Only({Result([s.g EXCEPT !.derivative = put(@, orig, s.val),
                                  !.nodes.objects = @ \cup {s.val},
                                  !.src = put(@, tree, MXObj(s.val))],
                      s.val, Ok) :
                  s \in {mx_sym(g, <<"der(">> \o g.mx[orig].name \o <<")">>,
                                g.mx[orig].rows)}})

\* Variable(mx): a variable of the model, with the prefixes exitClass gives it
Variable(s, prefixes) == [symbol |-> s, prefixes |-> prefixes]

\* delay were it to accept an operand that is no symbol
delay_of_any_expression(g, tree, expr, delay_time) ==
    Only({Result([s.g EXCEPT
                     !.delayed_states =
                         Append(@, [name |-> s.g.mx[s.val].name,
                                    origin |-> g.mx[expr].name,
                                    delay |-> delay_time]),
                     !.inputs = Append(@, Variable(s.val, {})),
                     !.src = put(@, tree, MXObj(s.val))],
                 s.val, Ok) :
             s \in {mx_sym(g, g.mx[expr].name \o <<"_delayed_", delay_time>>,
                           g.mx[expr].rows)}})

\* Generator.exitExpression, operator delay with two operands, once get_mx
\* has returned expr and delay_time
delay(g, tree, expr, delay_time) ==
    IF ~g.mx[expr].symbolic THEN Result(g, 0, "NotImplementedError")
    ELSE Only({Result([s.g EXCEPT
                          !.delayed_states =
                              Append(@, [name |-> s.g.mx[s.val].name,
                                         origin |-> g.mx[expr].name,
                                         delay |-> delay_time]),
                          !.inputs = Append(@, Variable(s.val, {})),
                          !.src = put(@, tree, MXObj(s.val))],
                      s.val, Ok) :
                  s \in {mx_sym(g, g.mx[expr].name \o <<"_delayed_", delay_time>>,
                                g.mx[expr].rows)}})

\* Generator.exitExpression
exitExpression(g, tree, trees) ==
    Only({IF r.err # Ok THEN r
          ELSE IF trees[tree].name = "der" THEN der(r.g, tree, r.val)
          ELSE delay(r.g, tree, r.val,
                     get(r.g.src, trees[tree].operands[2]).v) :
             r \in {get_mx(g, trees[tree].operands[1],
                           trees[trees[tree].operands[1]])}})

\* ForLoop.__init__ for the range 1:stop
ForLoop(g, tree, name, stop_index) ==
    Only({IF stop.err # Ok THEN stop
          ELSE Result(r.g, [tree |-> tree, name |-> name,
                            values |-> np_arange(1, stop.val + 1, 1),
                            index_variable |-> r.val,
                            indexed_symbols |-> <<>>], Ok) :
             stop \in {get_integer(g, stop_index)},
             r \in {mx_sym(g, <<name>>, 1)}})

\* Generator.enterForEquation, Generator.enterForStatement
enterFor(g, tree, name, stop_index) ==
    Only({IF f.err # Ok THEN f
          ELSE Result([f.g EXCEPT !.for_loops = Append(@, f.val)], 0, Ok) :
             f \in {ForLoop(g, tree, name, stop_index)}})

\* the arguments of the mapped loop body for the indexed symbols,
\* nodes[current_class][k.tree.name][k.indices - 1]: the kernel refuses an
\* index that is no row of the symbol
indexed_symbols_full(g, f, trees) ==
    \A k \in 1..Len(f.indexed_symbols) :
        \A n \in 1..Len(f.indexed_symbols[k].indices) :
            LET s == get(g.nodes.names, trees[f.indexed_symbols[k].tree].name)
                i == f.indexed_symbols[k].indices[n] - 1
            IN i >= 0 /\ i < g.mx[s].rows

\* Generator.exitEquation for left = right, left a ComponentRef and right
\* a Primary: the residual left - right.  (Neither side is a call of a
\* function of the collection, whose outputs the handler may truncate.)
exitEquation(g, tree, trees) ==
    Only({IF l.err # Ok THEN l
          ELSE Only({Result([s.g EXCEPT !.src = put(@, tree, MXObj(s.val))],
                            s.val, Ok) :
                        s \in {mx_sub(l.g, l.val,
                                      get(l.g.src, trees[tree].operands[2]).v)}}) :
             l \in {get_mx(g, trees[tree].operands[1],
                           trees[trees[tree].operands[1]])}})

\* tree.equations of a for-equation: the equations and for-equations the
\* walker visited as its children, in order
for_equations(trees, tree) ==
    LET child(t) == /\ trees[t].kind \in {"Equation", "ForEquation"}
                    /\ trees[t].scope = Append(trees[tree].scope, tree)
    IN SelectSeq([t \in 1..Len(trees) |-> t], child)

\* ca.vcat([ca.vec(self.get_mx(e)) for e in tree.equations]): its rows
RECURSIVE vcat_rows(_, _)
vcat_rows(g, equations) ==
    IF equations = <<>> THEN 0
    ELSE numel(g.mx[get(g.src, equations[1]).h])
         + vcat_rows(g, Tail(equations))

\* an element taken without the shift from Modelica's indices to Python's
indexed_element_unshifted(indices, j) == indices[j]

\* f.indexed_symbols[k].indices - 1, at the j-th value of the loop
indexed_element(indices, j) == indices[j] - 1

\* Fmap.call([f.values] + indexed_symbols_full + free_vars): the j-th
\* instance of the body has the argument index_variable at f.values[j] and
\* the argument of each registered placeholder at the element
\* indices[j] - 1 of nodes[current_class][tree.name]
loop_instance(g, f, trees, j) ==
    [index |-> <<f.index_variable, f.values[j]>>,
     bound |-> {<<f.indexed_symbols[k].e,
                  get(g.nodes.names, trees[f.indexed_symbols[k].tree].name),
                  indexed_element(f.indexed_symbols[k].indices, j)>> :
                   k \in 1..Len(f.indexed_symbols)}]

\* res[0].T of the mapped body: one row for each value of the loop, one
\* column for each row of the body
mx_map(g, f, trees, equations) ==
    Result([g EXCEPT !.mx =
               Append(@, [symbolic |-> FALSE, name |-> <<>>,
                          rows |-> Len(f.values),
                          cols |-> vcat_rows(g, equations),
                          op |-> "map",
                          args |-> [e \in 1..Len(equations) |->
                                       get(g.src, equations[e]).h],
                          instances |-> [j \in 1..Len(f.values) |->
                                            loop_instance(g, f, trees, j)]])],
           Len(g.mx) + 1, Ok)

\* Generator.exitForEquation, Generator.exitForStatement: pop the loop, then
\* map the loop body over its values.  The mapped body is one new kernel
\* object for an equation (the empty MX() for an empty range) and a list of
\* assignments for a statement.
exitFor(g, tree, trees) ==
    Only({IF Len(f.values) > 0 /\ ~indexed_symbols_full(popped, f, trees)
          THEN Result(popped, 0, "RuntimeError")
          ELSE IF trees[tree].kind = "ForEquation"
          THEN Only({Result([res.g EXCEPT !.src = put(@, tree, MXObj(res.val))],
                            res.val, Ok) :
                        res \in {IF Len(f.values) > 0
                                 THEN mx_map(popped, f, trees,
                                             for_equations(trees, tree))
                                 ELSE mx_expr(popped, 0)}})
          ELSE Result([popped EXCEPT !.src =
                          put(@, tree, Value(IF Len(f.values) > 0
                                             THEN "assignments" ELSE "[]"))],
                      0, Ok) :
             f \in {g.for_loops[Len(g.for_loops)]},
             popped \in {[g EXCEPT !.for_loops = SubSeq(@, 1, Len(@) - 1)]}})

\* The references the walked class hands to der and delay: x, x[1], x[i],
\* y, and z, which the class does not declare.
OperandRefs ==
    {[name |-> "x", index |-> NoIndex],
     [name |-> "x", index |-> PrimaryIndex("1")],
     [name |-> "x", index |-> RefIndex("i")],
     [name |-> "y", index |-> NoIndex],
     [name |-> "z", index |-> NoIndex]}
\* the index variable of a for-construct, by its nesting depth
LoopNames == <<"i", "j", "k", "l">>
\* the upper bounds of the for-ranges: an empty range and a range over the
\* rows of x
Stops == {Digits[1], Digits[MaxStop + 1]}
\* the delay time of every delay expression
DelayTime == "0.5"

\* Generator.__init__ followed by enterClass of the class c: the walk is
\* about to reach the equations of the class.
WalkStarts(c) ==
    /\ walk = "walking"
    /\ wstack = <<>>
    /\ entered_classes = <<c>>
    /\ model = NewModel
    /\ ast = ClassTrees(c)
    /\ mx = <<[symbolic |-> TRUE, name |-> <<"time">>, rows |-> 1]>>
    /\ src = {}
    /\ nodes = [names |-> {<<"time", TimeHandle>>}, objects |-> {}]
    /\ derivative = {}
    /\ for_loops = <<>>
    /\ delayed_states = <<>>
    /\ inputs = <<>>
    /\ RefIdle /\ NodeIdle /\ CollIdle /\ IfIdle /\ OtherIdle

GenInit == WalkStarts(ModelM)

\* A callback returns or raises: the tables keep what it did; an error ends
\* the walk, no callback runs after it.
Returns(r, reached, stack) ==
    /\ walk' = IF r.err = Ok THEN "walking" ELSE r.err
    /\ wstack' = stack
    /\ ast' = reached
    /\ mx' = r.g.mx
    /\ src' = r.g.src
    /\ nodes' = r.g.nodes
    /\ derivative' = r.g.derivative
    /\ for_loops' = r.g.for_loops
    /\ delayed_states' = r.g.delayed_states
    /\ inputs' = r.g.inputs
    /\ UNCHANGED <<entered_classes, model>>
    /\ UNCHANGED <<refVars, nodeVars, collVars, ifVars, otherVars>>

\* The walker reaches a for-construct over 1:stop: the enter callback runs
\* before the walker descends into the children.
WalkerEnters(kind, stop) ==
    LET tree == Len(ast) + 1
        name == LoopNames[Len(wstack) + 1]
    IN \E r \in {enterFor(Tables, tree, name, PrimaryIndex(stop))} :
        Returns(r, Append(ast, TreeNode(kind, name, PrimaryIndex(stop),
                                        <<>>, wstack)),
                IF r.err = Ok THEN Append(wstack, tree) ELSE wstack)

EnterForEquation ==
    /\ walk = "walking"
    /\ Len(wstack) < MaxDepth
    /\ Len(ast) < MaxTrees
    /\ \E stop \in Stops : WalkerEnters("ForEquation", stop)

EnterForStatement ==
    /\ walk = "walking"
    /\ Len(wstack) < MaxDepth
    /\ Len(ast) < MaxTrees
    /\ \E stop \in Stops : WalkerEnters("ForStatement", stop)

\* The walker has visited the children of the innermost for-construct: the
\* exit callback runs.
WalkerExits ==
    \E r \in {exitFor(Tables, wstack[Len(wstack)], ast)} :
        Returns(r, ast, SubSeq(wstack, 1, Len(wstack) - 1))

ExitForEquation ==
    /\ walk = "walking"
    /\ wstack # <<>>
    /\ ast[wstack[Len(wstack)]].kind = "ForEquation"
    /\ WalkerExits

ExitForStatement ==
    /\ walk = "walking"
    /\ wstack # <<>>
    /\ ast[wstack[Len(wstack)]].kind = "ForStatement"
    /\ WalkerExits

\* The walker leaves an expression der(ref).
ExitExpressionDer ==
    /\ walk = "walking"
    /\ Len(ast) + 2 <= MaxTrees
    /\ \E o \in OperandRefs :
        LET operand == Len(ast) + 1
            tree == Len(ast) + 2
            trees == ast \o
                <<TreeNode("ComponentRef", o.name, o.index, <<>>, wstack),
                  TreeNode("Expression", "der", NoIndex, <<operand>>, wstack)>>
        IN \E r \in {exitExpression(Tables, tree, trees)} :
            Returns(r, trees, wstack)

\* The walker leaves an expression delay(ref, 0.5): exitPrimary for the
\* delay time, then exitExpression.
ExitExpressionDelay ==
    /\ walk = "walking"
    /\ Len(ast) + 3 <= MaxTrees
    /\ \E o \in OperandRefs :
        LET operand == Len(ast) + 1
            time_operand == Len(ast) + 2
            tree == Len(ast) + 3
            trees == ast \o
                <<TreeNode("ComponentRef", o.name, o.index, <<>>, wstack),
                  TreeNode("Primary", DelayTime, NoIndex, <<>>, wstack),
                  TreeNode("Expression", "delay", NoIndex,
                           <<operand, time_operand>>, wstack)>>
        IN \E r \in {exitExpression(exitPrimary(Tables, time_operand,
                                                  DelayTime),
                                      tree, trees)} :
            Returns(r, trees, wstack)

\* The walker leaves an equation ref = 0: exitPrimary for the right-hand
\* side, then exitEquation.
ExitEquation ==
    /\ walk = "walking"
    /\ Len(ast) + 3 <= MaxEquationTrees
    /\ \E o \in OperandRefs :
        LET left == Len(ast) + 1
            right == Len(ast) + 2
            tree == Len(ast) + 3
            trees == ast \o
                <<TreeNode("ComponentRef", o.name, o.index, <<>>, wstack),
                  TreeNode("Primary", Digits[1], NoIndex, <<>>, wstack),
                  TreeNode("Equation", "", NoIndex, <<left, right>>, wstack)>>
        IN \E r \in {exitEquation(exitPrimary(Tables, right, Digits[1]),
                                   tree, trees)} :
            Returns(r, trees, wstack)

\* sorted(tree.symbols.values(), key=lambda x: x.order): a stable sort
sorted_symbols(symbols) ==
    LET rank(k) ==
            Cardinality({j \in 1..Len(symbols) :
                            \/ symbols[j].order < symbols[k].order
                            \/ symbols[j].order = symbols[k].order /\ j < k})
    IN [i \in 1..Len(symbols) |->
           symbols[CHOOSE k \in 1..Len(symbols) : rank(k) = i - 1]]

\* the list of a symbol were parameter tested before constant
symbol_list_parameter_first(s) ==
    IF "parameter" \in s.prefixes THEN "parameters"
    ELSE IF "constant" \in s.prefixes THEN "constants"
    ELSE IF "input" \in s.prefixes THEN "inputs"
    ELSE "states"

\* Generator.exitClass: the list a symbol is appended to
symbol_list(s) ==
    IF "constant" \in s.prefixes THEN "constants"
    ELSE IF "parameter" \in s.prefixes THEN "parameters"
    ELSE IF "input" \in s.prefixes THEN "inputs"
    ELSE "states"
symbols_of(symbols, list) ==
    LET listed(s) == symbol_list(s) = list
    IN SelectSeq(symbols, listed)

\* get_mx on every symbol of a list in turn: a symbol no expression has
\* referred to is created now
RECURSIVE lower_symbols(_, _)
lower_symbols(g, symbols) ==
    IF symbols = <<>> THEN g
    ELSE lower_symbols(get_mx_symbol(g, symbols[1].name).g, Tail(symbols))

\* self.get_mx(s) for a symbol that has been lowered
symbol_mx(g, s) == get(g.src, SymbolTree(s.name)).h

\* Generator._ast_symbols_to_variables: a symbol whose value is empty gives
\* no variable; a variable of a symbol carries the symbol's prefixes, the
\* variable of a derivative does not
ast_symbols_to_variables(g, ast_symbols, differentiate) ==
    LET non_empty(s) == g.mx[symbol_mx(g, s)].rows # 0
        kept == SelectSeq(ast_symbols, non_empty)
    IN [k \in 1..Len(kept) |->
           IF differentiate
           THEN Variable(get(g.derivative, symbol_mx(g, kept[k])), {})
           ELSE Variable(symbol_mx(g, kept[k]), kept[k].prefixes)]

\* tree.equations: the equations of the class itself, all of them exited
\* when the class is
class_equations(trees) ==
    LET top(t) == /\ trees[t].kind \in {"Equation", "ForEquation"}
                  /\ trees[t].scope = <<>>
    IN SelectSeq([t \in 1..Len(trees) |-> t], top)

\* discard_empty([self.get_mx(e) for e in tree.equations])
discard_empty(g, equations) ==
    LET non_empty(e) == numel(g.mx[get(g.src, e).h]) # 0
        kept == SelectSeq(equations, non_empty)
    IN [k \in 1..Len(kept) |-> get(g.src, kept[k]).h]

\* the outputs were they taken from the states alone
model_outputs_of_states(states, alg_states) ==
    LET has_output(v) == "output" \in v.prefixes
    IN SelectSeq(states, has_output)

\* Generator.exitClass: the variables of states and alg_states, chained, that
\* have the prefix output
model_outputs(states, alg_states) ==
    LET has_output(v) == "output" \in v.prefixes
    IN SelectSeq(states \o alg_states, has_output)

\* Generator.exitClass once every symbol has been lowered
exitClass_lists(g, tree, symbols, trees) ==
    LET has_derivative(s) == has(g.derivative, symbol_mx(g, s))
        no_derivative(s) == ~has_derivative(s)
    IN Only({[states |-> states, der_states |-> der_states,
              alg_states |-> alg_states,
              constants |->
                  ast_symbols_to_variables(
                      g, symbols_of(symbols, "constants"), FALSE),
              parameters |->
                  ast_symbols_to_variables(
                      g, symbols_of(symbols, "parameters"), FALSE),
              inputs |->
                  g.inputs \o ast_symbols_to_variables(
                                  g, symbols_of(symbols, "inputs"), FALSE),
              outputs |-> model_outputs(states, alg_states),
              equations |-> discard_empty(g, class_equations(trees))] :
                states \in {ast_symbols_to_variables(
                               g, SelectSeq(symbols_of(symbols, "states"),
                                            has_derivative), FALSE)},
                der_states \in {ast_symbols_to_variables(
                                   g, SelectSeq(symbols_of(symbols, "states"),
                                                has_derivative), TRUE)},
                alg_states \in {ast_symbols_to_variables(
                                   g, SelectSeq(symbols_of(symbols, "states"),
                                                no_derivative), FALSE)}})

\* the test of the statements were the initial statements left out
statements_refused_initial_ignored(tree) == tree.statements > 0

\* Generator.exitClass: len(tree.statements) + len(tree.initial_statements) > 0
statements_refused(tree) == tree.statements + tree.initial_statements > 0

\* Generator.exitClass of a class that is no function, once every symbol has
\* been lowered: the statements are refused after the lists are assigned
exitClass_model(lowered, m, classes, trees) ==
    LET tree == classes[Len(classes)]
        refused == statements_refused(tree)
    IN Only({[g |-> [lowered EXCEPT !.inputs = lists.inputs],
              model |-> [f \in DOMAIN m |-> lists[f]],
              entered_classes |->
                  IF refused THEN classes
                  ELSE SubSeq(classes, 1, Len(classes) - 1),
              err |-> IF refused THEN "NotImplementedError" ELSE Ok] :
                lists \in {exitClass_lists(
                    lowered, tree, sorted_symbols(tree.symbols), trees)}})

\* Generator.exitClass: the tables, the model and entered_classes afterwards,
\* and the error raised
exitClass(g, m, classes, trees) ==
    IF classes[Len(classes)].type = "function"
    THEN [g |-> g, model |-> m,
          entered_classes |-> SubSeq(classes, 1, Len(classes) - 1),
          err |-> Ok]
    ELSE Only({exitClass_model(lowered, m, classes, trees) :
                  lowered \in {lower_symbols(
                      g, LET symbols ==
                                 sorted_symbols(classes[Len(classes)].symbols)
                         IN symbols_of(symbols, "states")
                            \o symbols_of(symbols, "constants")
                            \o symbols_of(symbols, "parameters")
                            \o symbols_of(symbols, "inputs"))}})

\* The walker has visited the children of the class: exitClass runs.
ExitClass ==
    /\ walk = "walking"
    /\ wstack = <<>>
    /\ \E r \in {exitClass(Tables, model, entered_classes, ast)} :
        /\ walk' = IF r.err = Ok THEN "exited" ELSE r.err
        /\ model' = r.model
        /\ entered_classes' = r.entered_classes
        /\ mx' = r.g.mx
        /\ src' = r.g.src
        /\ nodes' = r.g.nodes
        /\ inputs' = r.g.inputs
    /\ UNCHANGED <<wstack, ast, derivative, for_loops, delayed_states>>
    /\ UNCHANGED <<refVars, nodeVars, collVars, ifVars, otherVars>>

\* The walker has visited every node: walk returns.
WalkReturns ==
    /\ walk = "exited"
    /\ walk' = "done"
    /\ UNCHANGED <<wstack, ast, mx, src, nodes, derivative, for_loops,
                   delayed_states, inputs, entered_classes, model>>
    /\ UNCHANGED <<refVars, nodeVars, collVars, ifVars, otherVars>>

GenNext ==
    \/ EnterForEquation
    \/ EnterForStatement
    \/ ExitForEquation
    \/ ExitForStatement
    \/ ExitExpressionDer
    \/ ExitExpressionDelay
    \/ ExitClass
    \/ WalkReturns

SpecGen == GenInit /\ [][GenNext]_vars

\* The walk of a class whose equations are equations ref = 0 and
\* for-equations over them.
ForNext ==
    \/ EnterForEquation
    \/ ExitEquation
    \/ ExitForEquation
    \/ ExitClass
    \/ WalkReturns

SpecFor == GenInit /\ [][ForNext]_vars

(***************************************************************************)
(* Generator.exitClass (generator.py:115-167) over the classes of a pool:  *)
(* the walk of a class with the symbols x and y, whose expressions are     *)
(* der and delay expressions, up to the exit of the class.                 *)
(***************************************************************************)
\* the prefixes of a symbol
PrefixSets ==
    {{}, {"constant"}, {"parameter"}, {"input"}, {"output"},
     {"input", "output"}, {"parameter", "input"},
     {"constant", "parameter", "input"}}
\* type, statements and initial statements of the class
ClassKinds ==
    {<<"model", 0, 0>>, <<"model", 1, 0>>, <<"model", 0, 1>>,
     <<"function", 1, 0>>}
\* the classes walked: x has two rows or none, y one or none; the symbols
\* are declared x before y or y before x
ClassPool ==
    {GenClass(k[1],
              <<GenSymbol("x", px, <<dx>>, ox), GenSymbol("y", py, <<dy>>, 3 - ox)>>,
              k[2], k[3]) :
        k \in ClassKinds, px \in PrefixSets, py \in PrefixSets,
        dx \in {"0", "2"}, dy \in {"0", "1"}, ox \in {1, 2}}

ClassInit == \E c \in ClassPool : WalkStarts(c)

ClassNext ==
    \/ ExitExpressionDer
    \/ ExitExpressionDelay
    \/ ExitClass
    \/ WalkReturns

SpecClass == ClassInit /\ [][ClassNext]_vars

(***************************************************************************)
(* The expansion of a Slice (Generator.get_integer, generator.py:494-498)  *)
(* and of the range of a for-loop (ForLoop.__init__, generator.py:44-55),  *)
(* one call on integer operands with a positive step.                      *)
(***************************************************************************)
\* np.arange(start, stop + step, step): what both places compute
slice_values(start, step, stop) == np_arange(start, stop + step, step)

SliceCalls ==
    [kind : {"Slice", "ForLoop"}, start : 0..MaxStart, step : 1..MaxStep,
     stop : 0..MaxSliceStop]

SliceInit ==
    /\ sliceCall \in SliceCalls
    /\ sliceRet = Pending
    /\ run1 = NoRun /\ FunIdle /\ AliasIdle /\ finding = NoCall
    /\ RefIdle /\ NodeIdle /\ CollIdle /\ IfIdle /\ GenIdle

\* get_integer(tree) for a Slice whose operands are integer Primaries
GetIntegerSlice ==
    /\ sliceCall # NoCall /\ sliceCall.kind = "Slice" /\ sliceRet = Pending
    /\ sliceRet' = [values |-> slice_values(int(Digits[sliceCall.start + 1]),
                                            int(Digits[sliceCall.step + 1]),
                                            int(Digits[sliceCall.stop + 1]))]
    /\ UNCHANGED <<sliceCall, run1, funVars, aliasVars, finding, refVars, nodeVars,
                   collVars, ifVars,
                   genVars>>

\* ForLoop(generator, tree).values: start and step are the values of the
\* Primaries, stop goes through get_integer
ForLoopInit ==
    /\ sliceCall # NoCall /\ sliceCall.kind = "ForLoop" /\ sliceRet = Pending
    /\ sliceRet' = [values |-> slice_values(sliceCall.start, sliceCall.step,
                                            int(Digits[sliceCall.stop + 1]))]
    /\ UNCHANGED <<sliceCall, run1, funVars, aliasVars, finding, refVars, nodeVars,
                   collVars, ifVars,
                   genVars>>

SliceNext == GetIntegerSlice \/ ForLoopInit

SpecSlice == SliceInit /\ [][SliceNext]_vars

(***************************************************************************)
(* generate (generator.py:622-634) called twice on one AST and one model   *)
(* path.  Each call flattens, constructs a Generator and walks the flat    *)
(* class; the flat class of the second call is that of the first, so the   *)
(* walker visits the same nodes in the same order.  The kernel's objects   *)
(* of the first run stay alive: the second run creates its own after them. *)
(***************************************************************************)
\* a Generator that is handed the src table of an earlier one
new_generator_keeping_src(g) ==
    [mx |-> Append(g.mx, [symbolic |-> TRUE, name |-> <<"time">>, rows |-> 1]),
     src |-> g.src,
     nodes |-> [names |-> {<<"time", Len(g.mx) + 1>>}, objects |-> {}],
     derivative |-> {}, for_loops |-> <<>>, delayed_states |-> <<>>,
     inputs |-> <<>>]

\* Generator.__init__: every table is new, Model() creates its time symbol
new_generator(g) ==
    [mx |-> Append(g.mx, [symbolic |-> TRUE, name |-> <<"time">>, rows |-> 1]),
     src |-> {},
     nodes |-> [names |-> {<<"time", Len(g.mx) + 1>>}, objects |-> {}],
     derivative |-> {}, for_loops |-> <<>>, delayed_states |-> <<>>,
     inputs |-> <<>>]

\* generate has returned the model of the first run: generate is called
\* again, up to enterClass of the flat class
GenerateAgain ==
    /\ walk = "done"
    /\ run1 = NoRun
    /\ run1' = [kind |-> "run", ast |-> ast, mx |-> mx, model |-> model]
    /\ \E g \in {new_generator(Tables)} :
        /\ mx' = g.mx
        /\ src' = g.src
        /\ nodes' = g.nodes
        /\ derivative' = g.derivative
        /\ for_loops' = g.for_loops
        /\ delayed_states' = g.delayed_states
        /\ inputs' = g.inputs
    /\ walk' = "walking"
    /\ wstack' = <<>>
    /\ entered_classes' = <<ModelM>>
    /\ model' = NewModel
    /\ ast' = ClassTrees(ModelM)
    /\ UNCHANGED <<refVars, nodeVars, collVars, ifVars, sliceVars, funVars,
                   aliasVars, finding>>

\* A step of the second walk visits the node the first walk visited at the
\* same place: it reaches the next nodes of the same tree, leaves a
\* for-equation when the next node is outside of it, and leaves the class
\* after the last node.
SameTree ==
    \/ run1 = NoRun
    \/ /\ Len(ast') <= Len(run1.ast)
       /\ ast' = SubSeq(run1.ast, 1, Len(ast'))
       /\ ast' = ast =>
            \/ Len(ast) = Len(run1.ast)
            \/ /\ wstack # <<>>
               /\ \A d \in DOMAIN run1.ast[Len(ast) + 1].scope :
                     run1.ast[Len(ast) + 1].scope[d] # wstack[Len(wstack)]

TwiceNext ==
    \/ EnterForEquation /\ SameTree
    \/ ExitEquation /\ SameTree
    \/ ExitForEquation /\ SameTree
    \/ ExitClass /\ SameTree
    \/ WalkReturns
    \/ GenerateAgain

SpecTwice == GenInit /\ [][TwiceNext]_vars

(***************************************************************************)
(* Generator.get_function (generator.py:583-619), called by exitExpression *)
(* for an operator that is no built-in (generator.py:279-281).  The        *)
(* classes of root.classes are functions the walker has visited, so their  *)
(* statements are lowered; a function object is the number of the          *)
(* ca.Function call that created it.                                       *)
(***************************************************************************)
\* a function class: its name and the names of its symbols
FunctionClass(name, symbols) == [name |-> name, symbols |-> symbols]
\* the entries root.classes may hold: f under its own name, and g of the
\* package P under its qualified name
ClassF == <<"f", FunctionClass("f", {"u", "y"})>>
ClassG == <<"P.g", FunctionClass("g", {"u", "y"})>>
FunctionNames == {"f", "P.g", "h"}

\* the ca.Function objects created so far
function_objects(calls) ==
    Cardinality({k \in DOMAIN calls : calls[k].folded})

\* Generator.get_function: the cache and src afterwards, the function
\* returned, the symbols created, and whether the body was folded
get_function(fs, srcs, classes, calls, function_name) ==
    IF has(fs, function_name)
    THEN [functions |-> fs, src |-> srcs, ret |-> get(fs, function_name),
          err |-> Ok, folded |-> FALSE, created |-> {}]
    ELSE IF ~has(classes, function_name)
    THEN [functions |-> fs, src |-> srcs, ret |-> 0,
          err |-> "Exception", folded |-> FALSE, created |-> {}]
    ELSE LET tree == get(classes, function_name)
             symbols == {<<function_name, s>> : s \in tree.symbols}
             function == function_objects(calls) + 1
         IN [functions |-> put(fs, tree.name, function),
             src |-> srcs \cup symbols, ret |-> function, err |-> Ok,
             folded |-> TRUE, created |-> symbols \ srcs]

FunInit ==
    /\ root_classes \in SUBSET {ClassF, ClassG}
    /\ functions = {}
    /\ function_src = {}
    /\ function_calls = <<>>
    /\ sliceCall = NoCall /\ sliceRet = Pending /\ run1 = NoRun /\ AliasIdle
    /\ finding = NoCall
    /\ RefIdle /\ NodeIdle /\ CollIdle /\ IfIdle /\ GenIdle

\* exitExpression reaches a call of a user function
GetFunction ==
    /\ Len(function_calls) < MaxCalls
    /\ \E function_name \in FunctionNames :
        \E r \in {get_function(functions, function_src, root_classes,
                               function_calls, function_name)} :
            /\ functions' = r.functions
            /\ function_src' = r.src
            /\ function_calls' =
                   Append(function_calls,
                          [name |-> function_name, ret |-> r.ret,
                           err |-> r.err, folded |-> r.folded,
                           created |-> r.created, before |-> functions,
                           after |-> r.functions])
    /\ UNCHANGED <<root_classes, sliceVars, run1, aliasVars, finding, refVars, nodeVars,
                   collVars,
                   ifVars, genVars>>

FunNext == GetFunction

SpecFunction == FunInit /\ [][FunNext]_vars

(***************************************************************************)
(* ComponentRef.concatenate (ast.py:163-180) on objects with identity.     *)
(* An object of the heap is a ComponentRef, whose lists indices and child  *)
(* hold objects, or a Primary; a list belongs to the node that holds it.   *)
(* After the call the caller may assign to a field of any object it can    *)
(* reach from the result or from an argument.                              *)
(***************************************************************************)
HeapRef(name, indices, child) ==
    [kind |-> "ComponentRef", name |-> name, indices |-> indices,
     child |-> child, value |-> 0]
HeapPrimary(value) ==
    [kind |-> "Primary", name |-> "", indices |-> <<>>, child |-> <<>>,
     value |-> value]

\* the objects an object refers to
object_refs(o) ==
    {o.indices[k] : k \in DOMAIN o.indices} \cup {o.child[k] : k \in DOMAIN o.child}

\* the objects reachable from the objects of S
RECURSIVE reachable(_, _)
reachable(h, S) ==
    LET T == S \cup UNION {object_refs(h[i]) : i \in S}
    IN IF T = S THEN S ELSE reachable(h, T)

\* copy.deepcopy(root): a new object for every object reachable from root,
\* referring to the new objects
deepcopy(h, root) ==
    LET old == reachable(h, {root})
        new(i) == Len(h) + Cardinality({j \in old : j <= i})
        copy(o) == [o EXCEPT !.indices = [k \in DOMAIN @ |-> new(@[k])],
                             !.child = [k \in DOMAIN @ |-> new(@[k])]]
        source(n) == CHOOSE i \in old : new(i) = n
    IN [heap |-> h \o [k \in 1..Cardinality(old) |->
                          copy(h[source(Len(h) + k)])],
        root |-> new(root)]

\* concatenate were a its first argument, not a copy of it
first_argument_itself(h, root) == [heap |-> h, root |-> root]

\* a = copy.deepcopy(args[0])
copy_of_first(h, root) == deepcopy(h, root)

\* while n.child: n = n.child[0]
RECURSIVE deepest_child(_, _)
deepest_child(h, n) ==
    IF Len(h[n].child) > 0 THEN deepest_child(h, h[n].child[1]) ELSE n

\* for b in args[1:]: walk n down, b = copy.deepcopy(b), n.child = [b]
RECURSIVE heap_concatenate_loop(_, _, _)
heap_concatenate_loop(h, n, rest) ==
    IF rest = <<>> THEN h
    ELSE Only({heap_concatenate_loop(
                   [b.heap EXCEPT ![d].child = <<b.root>>], d, Tail(rest)) :
                  d \in {deepest_child(h, n)}, b \in {deepcopy(h, rest[1])}})

\* ComponentRef.concatenate(*args) for at least one argument
heap_concatenate(h, args) ==
    Only({[heap |-> heap_concatenate_loop(a.heap, a.root, Tail(args)),
           root |-> a.root] :
             a \in {copy_of_first(h, args[1])}})

\* The refs of the caller: a.b, its child b, a[1] with its index, and b.
CallerHeap ==
    <<HeapRef("a", <<>>, <<2>>), HeapRef("b", <<>>, <<>>),
      HeapRef("a", <<4>>, <<>>), HeapPrimary(1), HeapRef("b", <<>>, <<>>)>>
CallerRefs == {1, 2, 3, 5}

AliasInit ==
    /\ heap = CallerHeap
    /\ aliasCall \in {[op |-> "concatenate", args |-> a] :
                        a \in UNION {[1..n -> CallerRefs] : n \in 1..MaxAliasArgs}}
    /\ aliasRet = Pending
    /\ aliasPast = Pending
    /\ SliceIdle /\ run1 = NoRun /\ FunIdle /\ finding = NoCall
    /\ RefIdle /\ NodeIdle /\ CollIdle /\ IfIdle /\ GenIdle

ConcatenateOnHeap ==
    /\ aliasCall # NoCall
    /\ aliasRet = Pending
    /\ \E r \in {heap_concatenate(heap, aliasCall.args)} :
        /\ heap' = r.heap
        /\ aliasRet' = [kind |-> "ok", value |-> r.root]
        /\ aliasPast' = [kind |-> "returned", called |-> heap,
                         returned |-> r.heap]
    /\ UNCHANGED <<aliasCall, sliceVars, run1, funVars, finding, refVars,
                   nodeVars, collVars, ifVars, genVars>>

\* an assignment to a field of the object i: a name, an emptied list, a
\* value
assigned(o) ==
    IF o.kind = "Primary" THEN {[o EXCEPT !.value = 9]}
    ELSE {[o EXCEPT !.name = "z"], [o EXCEPT !.child = <<>>],
          [o EXCEPT !.indices = <<>>]} \ {o}

Mutates(from, what) ==
    /\ \E i \in reachable(heap, from) :
        \E o \in assigned(heap[i]) : heap' = [heap EXCEPT ![i] = o]
    /\ aliasPast' = [aliasPast EXCEPT !.kind = what]
    /\ UNCHANGED <<aliasCall, aliasRet, sliceVars, run1, funVars, finding,
                   refVars, nodeVars, collVars, ifVars, genVars>>

\* the caller mutates the result
MutateResult ==
    /\ aliasRet # Pending
    /\ aliasPast.kind = "returned"
    /\ Mutates({aliasRet.value}, "result mutated")

\* the caller mutates an argument
MutateArgument ==
    /\ aliasRet # Pending
    /\ aliasPast.kind = "returned"
    /\ Mutates({aliasCall.args[k] : k \in DOMAIN aliasCall.args},
               "argument mutated")

AliasNext == ConcatenateOnHeap \/ MutateResult \/ MutateArgument

SpecAlias == AliasInit /\ [][AliasNext]_vars

(***************************************************************************)
(* Collection.find_class (ast.py:439-497) statement by statement: the      *)
(* builtin test and the build of the lookup, the rounds of the loop        *)
(* `while c is None` (ast.py:473-483), and the return or raise after it.   *)
(* The interpreter runs one call, a statement after the other.             *)
(***************************************************************************)
\* a loop that goes on after a match, up to the root
loop_continues_to_root(c) == TRUE

\* while c is None
loop_continues(c) == c = <<>>

\* within_tuple[:-1]
shorter_scope(within_tuple) == SubSeq(within_tuple, 1, Len(within_tuple) - 1)

\* self._class_lookup.get(key, None)
lookup_get(map, key) == IF key \in DOMAIN map THEN <<map[key]>> ELSE <<>>

FindInit ==
    /\ files \in UNION {[1..n -> FilePool] : n \in 0..1}
    /\ class_lookup \in
           {[isNone |-> TRUE, map |-> <<>>],
            [isNone |-> FALSE, map |-> build_class_lookup(files)]}
    /\ findRet = NoCall
    /\ finding \in
           {[op |-> "find_class", pc |-> "called", component_ref |-> r,
             within |-> w, check_builtin_classes |-> b, return_ref |-> rr,
             scope |-> <<>>, within_tuple |-> <<>>, cref_tuple |-> <<>>,
             c |-> <<>>, prev_tuple |-> <<>>, tried |-> <<>>,
             ret |-> Pending] :
                r \in FindRefs, w \in FindWithins, b \in BOOLEAN,
                rr \in BOOLEAN}
    /\ SliceIdle /\ run1 = NoRun /\ FunIdle /\ AliasIdle
    /\ RefIdle /\ NodeIdle /\ IfIdle /\ GenIdle

FindFrame ==
    UNCHANGED <<files, findRet, sliceVars, run1, funVars, aliasVars, refVars,
                nodeVars, ifVars, genVars>>

\* ast.py:440-452: the builtin short-circuit returns
FindBuiltin ==
    /\ finding # NoCall /\ finding.pc = "called"
    /\ finding.check_builtin_classes
    /\ finding.component_ref.name \in BuiltinNames
    /\ finding' = [finding EXCEPT
                      !.pc = "returned",
                      !.ret = builtin_return(finding.component_ref,
                                             finding.return_ref)]
    /\ UNCHANGED class_lookup
    /\ FindFrame

\* ast.py:454-471: the lookup is built if there is none, the tuples are
\* computed
FindBegin ==
    /\ finding # NoCall /\ finding.pc = "called"
    /\ ~(finding.check_builtin_classes
         /\ finding.component_ref.name \in BuiltinNames)
    /\ class_lookup' = IF class_lookup.isNone
                       THEN [isNone |-> FALSE, map |-> build_class_lookup(files)]
                       ELSE class_lookup
    /\ \E within_tuple \in {IF Len(finding.within) > 0
                            THEN to_tuple(finding.within[1]) ELSE <<>>} :
        finding' = [finding EXCEPT
                       !.pc = "loop",
                       !.scope = within_tuple,
                       !.within_tuple = within_tuple,
                       !.cref_tuple = to_tuple(finding.component_ref)]
    /\ FindFrame

\* ast.py:473-483: one round of the loop
FindRound ==
    /\ finding # NoCall /\ finding.pc = "loop"
    /\ loop_continues(finding.c)
    /\ \E key \in {finding.within_tuple \o finding.cref_tuple} :
        finding' = [finding EXCEPT
                       !.c = lookup_get(class_lookup.map, key),
                       !.prev_tuple = key,
                       !.tried = Append(@, key),
                       !.within_tuple =
                           IF Len(@) > 0 THEN shorter_scope(@) ELSE @,
                       !.pc = IF Len(finding.within_tuple) > 0
                              THEN "loop" ELSE "after"]
    /\ UNCHANGED class_lookup
    /\ FindFrame

\* the test of the loop fails: c is a class
FindLoopEnds ==
    /\ finding # NoCall /\ finding.pc = "loop"
    /\ ~loop_continues(finding.c)
    /\ finding' = [finding EXCEPT !.pc = "after"]
    /\ UNCHANGED class_lookup
    /\ FindFrame

\* ast.py:485-497: raise for no class, return the class found
FindEnds ==
    /\ finding # NoCall /\ finding.pc = "after"
    /\ finding' = [finding EXCEPT
                      !.pc = "returned",
                      !.ret = resolve_outcome(
                                  files,
                                  [found |-> finding.c # <<>>,
                                   c |-> IF finding.c # <<>>
                                         THEN finding.c[1] ELSE <<>>,
                                   prev_tuple |-> finding.prev_tuple],
                                  finding.component_ref, finding.return_ref)]
    /\ UNCHANGED class_lookup
    /\ FindFrame

FindNext ==
    \/ FindBuiltin
    \/ FindBegin
    \/ FindRound
    \/ FindLoopEnds
    \/ FindEnds

SpecFind == FindInit /\ [][FindNext]_vars /\ WF_vars(FindNext)

(***************************************************************************)
(* Properties of ComponentRef.                                             *)
(***************************************************************************)
RECURSIVE flatten_tuples(_)
flatten_tuples(args) ==
    IF Len(args) = 0 THEN <<>>
    ELSE to_tuple(args[1]) \o flatten_tuples(Tail(args))

RECURSIVE single_path(_)
single_path(r) ==
    /\ Len(r.child) <= 1
    /\ \A i \in 1..Len(r.child) : single_path(r.child[i])

StringRoundTrip ==
    (refCall.op = "from_string" /\ refRet # Pending)
        => (refRet.kind = "ok" /\ to_string(refRet.value) = refCall.arg)

\* C3 as stated: for every dotted string s the string form of from_string(s)
\* is s, and for every tuple of names t, from_tuple(t).to_tuple() is t.
C3_RoundTripEveryTuple ==
    /\ StringRoundTrip
    /\ (refCall.op = "from_tuple" /\ refRet # Pending)
          => (refRet.kind = "ok" /\ to_tuple(refRet.value) = refCall.arg)

\* C3 amended: for every dotted string s the string form of from_string(s)
\* is s, and for every non-empty tuple of names t, from_tuple(t).to_tuple()
\* is t; from_tuple of the empty tuple raises IndexError.
C3_RoundTrip ==
    /\ StringRoundTrip
    /\ (refCall.op = "from_tuple" /\ refRet # Pending)
          => IF Len(refCall.arg) > 0
             THEN refRet.kind = "ok" /\ to_tuple(refRet.value) = refCall.arg
             ELSE refRet.kind = "IndexError"

\* a string of three names, one of them empty, has been parsed
C3_Witness ==
    /\ refCall.op = "from_string"
    /\ refRet # Pending
    /\ refRet.kind = "ok"
    /\ Len(to_tuple(refRet.value)) = 3
    /\ \E i \in 1..3 : to_tuple(refRet.value)[i] = <<>>

\* C7: concatenate(r1, ..., rn), n >= 1, is one path whose names are the
\* names of r1, ..., rn in order, and each of its nodes has at most one child.
C7_ConcatenateTuple ==
    (refCall.op = "concatenate" /\ refRet # Pending /\ Len(refCall.arg) >= 1)
        => /\ refRet.kind = "ok"
           /\ to_tuple(refRet.value) = flatten_tuples(refCall.arg)
           /\ single_path(refRet.value)

\* three refs, two of them longer than one name, have been concatenated
C7_Witness ==
    /\ refCall.op = "concatenate"
    /\ refRet # Pending
    /\ Len(refCall.arg) = 3
    /\ Len(refCall.arg[1].child) = 1
    /\ Len(refCall.arg[2].child) = 1
    /\ refRet.kind = "ok"
    /\ Len(to_tuple(refRet.value)) >= 5

(***************************************************************************)
(* Properties of Node construction.                                        *)
(***************************************************************************)
\* the fields of each kind, as the class bodies of ast.py declare them
DeclaredFields(k) ==
    CASE k = "Primary" -> {"value"}
      [] k = "ComponentRef" -> {"name", "indices", "child"}
      [] k = "Slice" -> {"start", "stop", "step"}
      [] k = "Equation" -> {"left", "right", "comment"}
      [] k = "ElementReplaceable" -> {}
      [] k = "Collection" -> {"files"}

\* C6: a constructor call with a keyword that is no declared field of the
\* kind raises an error naming that keyword and produces no node; a call with
\* declared fields only produces a node that holds each given value and the
\* declared default of each omitted field.
C6_UnknownFieldRejected ==
    (nodeCall.op = "construct" /\ nodeRet # Pending) =>
        LET kw == nodeCall.kwargs
            fields == DeclaredFields(nodeCall.cls)
            bad == {i \in 1..Len(kw) : kw[i][1] \notin fields}
        IN IF bad # {}
           THEN /\ nodeRet.kind = "KeyError"
                /\ \E i \in bad :
                      /\ \A j \in bad : i <= j
                      /\ nodeRet.message[1] = kw[i][1]
           ELSE /\ nodeRet.kind = "ok"
                /\ nodeRet.cls = nodeCall.cls
                /\ fields \subseteq DOMAIN nodeRet.dict
                /\ \A f \in fields :
                      IF \E i \in 1..Len(kw) : kw[i][1] = f
                      THEN \E i \in 1..Len(kw) :
                              kw[i][1] = f /\ nodeRet.dict[f] = kw[i][2]
                      ELSE nodeRet.dict[f] = declared_defaults(nodeCall.cls)[f]

\* a declared keyword followed by an undeclared one has been rejected
C6_Witness ==
    /\ nodeCall.op = "construct"
    /\ nodeRet # Pending
    /\ Len(nodeCall.kwargs) = 2
    /\ nodeCall.kwargs[1][1] \in DeclaredFields(nodeCall.cls)
    /\ nodeCall.kwargs[2][1] \notin DeclaredFields(nodeCall.cls)
    /\ nodeRet.kind = "KeyError"

(***************************************************************************)
(* Properties of Collection.find_class.                                    *)
(***************************************************************************)
IsFind == findRet.op = "find_class"

\* the call went through scope resolution, not the builtin short-circuit
Resolved ==
    /\ IsFind
    /\ ~(findRet.check_builtin_classes
         /\ findRet.component_ref.name \in {"Real", "Integer", "String", "Boolean"})

ScopeOf(within) == IF Len(within) > 0 THEN to_tuple(within[1]) ELSE <<>>

\* the fully-qualified name tried with the first k names of the scope
ScopeKey(k) ==
    SubSeq(ScopeOf(findRet.within), 1, k) \o to_tuple(findRet.component_ref)

\* the scope prefixes under which the cache registers the reference
Matches ==
    {k \in 0..Len(ScopeOf(findRet.within)) : ScopeKey(k) \in DOMAIN class_lookup.map}

\* C1 as stated: every find_class resolves against every file now in the
\* collection, also those appended after the lookup was built: its outcome
\* is the outcome of a lookup built from the present files.
C1_FindSeesAppendedFiles ==
    Resolved =>
        findRet.ret =
            find_class(files, [isNone |-> TRUE, map |-> <<>>],
                       findRet.component_ref, findRet.within,
                       findRet.check_builtin_classes, findRet.return_ref).ret

\* C2: find_class returns the class registered under scope[1..k] + ref for
\* the largest k for which one is registered, and registering a class under
\* a shorter prefix would not change what it returns.
C2_NearestEnclosing ==
    (Resolved /\ Matches # {}) =>
        LET kmax == CHOOSE k \in Matches : \A j \in Matches : j <= k
            map == class_lookup.map
        IN /\ findRet.ret.kind = "return"
           /\ findRet.ret.c.obj = map[ScopeKey(kmax)]
           /\ findRet.ret.c.val = deref(files, map[ScopeKey(kmax)])
           /\ \A j \in 0..(kmax - 1) :
                 lookup_loop((ScopeKey(j) :> <<0>>) @@ map,
                             ScopeOf(findRet.within),
                             to_tuple(findRet.component_ref), <<>>).c
                     = findRet.ret.c.obj

\* from a scope of two names the reference was found one level up, while a
\* class of the same name is registered at the root as well
C2_Witness ==
    /\ Resolved
    /\ Len(ScopeOf(findRet.within)) = 2
    /\ Matches = {0, 1}
    /\ findRet.ret.kind = "return"

\* C4: a lookup that finds no match at any scope prefix raises KeyError when
\* the referenced name is Real, Integer, Boolean, String, Modelica or SI and
\* ClassNotFoundError otherwise; a lookup with a match returns a class, and
\* only such a lookup does.
C4_FailureKind ==
    Resolved =>
        /\ Matches = {} =>
              findRet.ret.kind =
                  IF findRet.component_ref.name \in
                         {"Real", "Integer", "Boolean", "String", "Modelica", "SI"}
                  THEN "KeyError" ELSE "ClassNotFoundError"
        /\ Matches # {} <=> findRet.ret.kind = "return"

\* an unregistered SI was looked up from a scope of two names: three keys
\* tried, KeyError raised
C4_Witness ==
    /\ Resolved
    /\ findRet.component_ref.name = "SI"
    /\ Len(findRet.tried) = 3
    /\ findRet.ret.kind = "KeyError"

\* C5: with check_builtin_classes, a reference named Real, Integer, String or
\* Boolean yields a new class of type "__builtin" whose only symbol is
\* __value, typed with that name, whatever the scope and the collection, and
\* the call neither builds the lookup nor looks anything up in it; any other
\* call looks the reference up and never yields a "__builtin" class.
C5_BuiltinShortCircuit ==
    IsFind =>
        IF findRet.check_builtin_classes
           /\ findRet.component_ref.name \in {"Real", "Integer", "String", "Boolean"}
        THEN /\ findRet.ret.kind = "return"
             /\ findRet.ret.c.obj = <<>>
             /\ findRet.ret.c.val.type = "__builtin"
             /\ findRet.ret.c.val.name = findRet.component_ref.name
             /\ Len(findRet.ret.c.val.symbols) = 1
             /\ findRet.ret.c.val.symbols[1].name = "__value"
             /\ to_tuple(findRet.ret.c.val.symbols[1].type)
                    = <<findRet.component_ref.name>>
             /\ ~findRet.built
             /\ findRet.tried = <<>>
        ELSE /\ findRet.tried # <<>>
             /\ ~class_lookup.isNone
             /\ findRet.ret.kind = "return" =>
                    /\ findRet.ret.c.obj # <<>>
                    /\ findRet.ret.c.val.type # "__builtin"

\* Real was requested as a builtin, from inside a scope, of a collection
\* that defines a class Real and has not built its lookup
C5_Witness ==
    /\ IsFind
    /\ findRet.check_builtin_classes
    /\ findRet.component_ref.name = "Real"
    /\ Len(findRet.within) > 0
    /\ <<"Real">> \in DOMAIN build_class_lookup(files)
    /\ class_lookup.isNone


(***************************************************************************)
(* Properties of if-equation lowering.                                     *)
(***************************************************************************)
\* an IfEquation of k branches of n equations each: k = conditions + 1
IfBranches == ifCall.nconds + 1
IfPerBranch == ifCall.nitems \div IfBranches
EqualBranches ==
    \A a, b \in DOMAIN ifCall.branches : ifCall.branches[a] = ifCall.branches[b]
IsIfEquation ==
    /\ ifCall.op = "exitIfEquation"
    /\ EqualBranches
    /\ ifRet # Pending

\* the branch taken: the first whose condition holds, else the last
BranchTaken(truth) ==
    IF \E c \in 1..ifCall.nconds : truth[c]
    THEN CHOOSE c \in 1..ifCall.nconds :
             truth[c] /\ \A d \in 1..(c - 1) : ~truth[d]
    ELSE IfBranches

\* the position in tree.equations of the i-th equation of branch b
EquationAt(b, i) == (b - 1) * IfPerBranch + i

\* C9 as stated: an IfEquation of k branches of n equations lowers to n
\* residuals, the i-th of them the i-th equation of the branch taken.
C9_ResidualsInSourceOrder ==
    IsIfEquation =>
        /\ ifRet.kind = "ok"
        /\ Len(ifRet.src) = IfPerBranch
        /\ ifEval # Pending =>
              \A i \in 1..IfPerBranch :
                  ifEval.selected[i] = EquationAt(BranchTaken(ifEval.truth), i)

\* C9 amended: an IfEquation of k branches of n equations lowers to n
\* residuals, the i-th of them the (n + 1 - i)-th equation of the branch
\* taken: the same position in every branch, the branch's equations in
\* reverse order.
C9_ResidualsReversed ==
    IsIfEquation =>
        /\ ifRet.kind = "ok"
        /\ Len(ifRet.src) = IfPerBranch
        /\ ifEval # Pending =>
              \A i \in 1..IfPerBranch :
                  ifEval.selected[i] =
                      EquationAt(BranchTaken(ifEval.truth), IfPerBranch + 1 - i)

\* three branches of two equations, evaluated where only the second
\* condition holds
C9_Witness ==
    /\ IsIfEquation
    /\ ifCall.nconds = 2
    /\ ifCall.nitems = 6
    /\ ifEval # Pending
    /\ ifEval.truth = <<FALSE, TRUE>>
    /\ ifEval.selected = <<4, 3>>

(***************************************************************************)
(* Properties of the generator's walk.                                     *)
(***************************************************************************)
\* the der expressions lowered so far
DerTrees ==
    {t \in 1..Len(ast) :
        ast[t].kind = "Expression" /\ ast[t].name = "der" /\ has(src, t)}
\* what an occurrence of der differentiates: the variable, the index it is
\* referenced by, and the for-constructs around the occurrence
Differentiated(t) ==
    LET ref == ast[ast[t].operands[1]]
    IN <<ref.name, ref.index, ref.scope>>

\* C8 (as stated): all occurrences of der(x), x referenced whole or by the
\* same index, lower to one derivative symbol, and the derivative table
\* holds one entry per differentiated variable.
C8_DerivativeUniqueness ==
    walk # "idle" =>
        /\ \A t1, t2 \in DerTrees :
              Differentiated(t1) = Differentiated(t2)
                  => get(src, t1) = get(src, t2)
        /\ Cardinality(derivative)
              = Cardinality({Differentiated(t) : t \in DerTrees})

\* C8, the part that holds: an entry of the derivative table is never
\* replaced or removed.
C8_EntriesKept == [][derivative \subseteq derivative']_vars

\* C8, the part that holds: the occurrences of der on a variable referenced
\* whole lower to one symbol.
C8_WholeReferencesShareSymbol ==
    walk # "idle" =>
        \A t1, t2 \in DerTrees :
            /\ ast[ast[t1].operands[1]].index = NoIndex
            /\ ast[ast[t1].operands[1]] = ast[ast[t2].operands[1]]
            => get(src, t1) = get(src, t2)

\* C10 (as stated): while the walk runs the depth of for_loops is the number
\* of for-constructs entered and not yet exited, and when the walk has
\* ended, normally or by an error, for_loops is back to empty.
C10_ForLoopsPoppedOnAllPaths ==
    /\ walk = "walking" => Len(for_loops) = Len(wstack)
    /\ walk \notin {"idle", "walking"} => for_loops = <<>>

\* C10, the part that holds: the depth during the walk, and the empty stack
\* after a walk that returned.
C10_ForLoopsBalancedWithoutError ==
    /\ walk = "walking" => Len(for_loops) = Len(wstack)
    /\ walk = "done" => for_loops = <<>>

(***************************************************************************)
(* Properties of Generator.exitClass.                                      *)
(***************************************************************************)
\* exitClass has run on a class that is no function and has returned
ClassExits ==
    /\ walk = "walking" /\ walk' = "exited"
    /\ current_class.type # "function"
\* the kernel object of a symbol after the exit
MxAfter(s) == get(src', SymbolTree(s.name)).h
\* the symbols of the class whose symbolic value is not empty
NonEmptySymbols ==
    {s \in {current_class.symbols[k] : k \in 1..Len(current_class.symbols)} :
        mx'[MxAfter(s)].rows # 0}
\* the list the claim gives a symbol
ListOf(s) ==
    IF "constant" \in s.prefixes THEN "constants"
    ELSE IF "parameter" \in s.prefixes THEN "parameters"
    ELSE IF "input" \in s.prefixes THEN "inputs"
    ELSE IF has(derivative, MxAfter(s)) THEN "states"
    ELSE "alg_states"
\* the five lists after the exit
ListsAfter ==
    [constants |-> model'.constants, parameters |-> model'.parameters,
     inputs |-> inputs', states |-> model'.states,
     alg_states |-> model'.alg_states]
\* the positions of a symbol's variable in a list
PositionsIn(list, s) ==
    {i \in 1..Len(list) : list[i].symbol = MxAfter(s)}
\* the variables of the declared symbols in a list, in the order of the list
DeclaredIn(list) ==
    LET declared(v) == \E s \in NonEmptySymbols : v.symbol = MxAfter(s)
    IN SelectSeq(list, declared)
SymbolOf(v) == CHOOSE s \in NonEmptySymbols : v.symbol = MxAfter(s)

\* C11: at the exit of a class that is no function, every declared symbol
\* with a non-empty value is in exactly one of constants, parameters,
\* inputs, states and alg_states: the list of its first prefix among
\* constant, parameter, input, else states when the derivative table has an
\* entry for it and alg_states when not; each list is in declaration order
\* and the four lists other than inputs hold nothing else.
C11_PartitionByPrefix ==
    [][ClassExits =>
        /\ \A s \in NonEmptySymbols : \A f \in DOMAIN ListsAfter :
              Cardinality(PositionsIn(ListsAfter[f], s))
                  = IF f = ListOf(s) THEN 1 ELSE 0
        /\ \A f \in DOMAIN ListsAfter :
              LET list == DeclaredIn(ListsAfter[f])
              IN /\ \A i, j \in 1..Len(list) :
                        i < j => SymbolOf(list[i]).order < SymbolOf(list[j]).order
                 /\ f # "inputs" => Len(list) = Len(ListsAfter[f])
                 /\ \A i \in 1..Len(list) :
                        list[i].prefixes = SymbolOf(list[i]).prefixes]_vars

\* C11 witness: a class has been exited with a constant that is also a
\* parameter, and with a differentiated state.
C11_Witness ==
    /\ walk = "exited"
    /\ Len(model.constants) = 1
    /\ "parameter" \in model.constants[1].prefixes
    /\ Len(model.states) = 1
    /\ model.alg_states = <<>>

\* the kernel objects of the variables of a list
SymbolsIn(list) == {list[i].symbol : i \in 1..Len(list)}
HasOutput(v) == "output" \in v.prefixes

\* C12: Model.outputs is the variables of states followed by those of
\* alg_states that have the prefix output, and no variable of constants,
\* parameters, inputs or der_states is among the outputs.
C12_OutputsAreStates ==
    /\ model.outputs = SelectSeq(model.states, HasOutput)
                           \o SelectSeq(model.alg_states, HasOutput)
    /\ SymbolsIn(model.outputs)
           \cap (SymbolsIn(model.constants) \cup SymbolsIn(model.parameters)
                   \cup SymbolsIn(inputs) \cup SymbolsIn(model.der_states))
         = {}

\* C12 witness: a class has been exited with an output among its algebraic
\* states, a differentiated state, and an input that has the prefix output.
C12_Witness ==
    /\ walk = "exited"
    /\ Len(model.outputs) = 1
    /\ model.outputs[1] \in {model.alg_states[i] : i \in 1..Len(model.alg_states)}
    /\ \E i \in 1..Len(inputs) : "output" \in inputs[i].prefixes

\* exitClass has run: the walk leaves "walking" and no node has been reached
ClassExitRuns == walk = "walking" /\ walk' # "walking" /\ ast' = ast

\* C13: the exit of a class that is no function and has a statement or an
\* initial statement raises NotImplementedError; the exit of any other
\* class, a function with statements among them, returns.
C13_ClassLevelStatementsRejected ==
    [][ClassExitRuns =>
        IF /\ current_class.type # "function"
           /\ current_class.statements + current_class.initial_statements > 0
        THEN walk' = "NotImplementedError"
        ELSE walk' = "exited"]_vars

\* C13 witness: the exit of a model with an initial statement has raised,
\* after the lists of the model were assigned.
C13_Witness ==
    /\ walk = "NotImplementedError"
    /\ Len(model.alg_states) = 2
    /\ entered_classes # <<>>
    /\ current_class.type = "model"
    /\ current_class.initial_statements = 1

(***************************************************************************)
(* Properties of the lowering of delay.                                    *)
(***************************************************************************)
\* exitExpression has run on a delay expression: the node reached last
DelayRuns ==
    /\ walk = "walking"
    /\ Len(ast') > Len(ast)
    /\ ast'[Len(ast')].kind = "Expression"
    /\ ast'[Len(ast')].name = "delay"
\* the first operand of that expression, and its kernel object once lowered
DelayOperand == ast'[Len(ast')].operands[1]
DelayOperandMx == mx'[get(src', DelayOperand).h]
DelayedNames == {delayed_states[i].name : i \in 1..Len(delayed_states)}

\* C14: delay(x, t) on a symbol x appends one DelayedState(x_delayed_t, x, t)
\* and one input variable of that name and of x's shape; on an operand that
\* is no symbol it raises NotImplementedError and changes neither list.  The
\* exit of the class appends the declared inputs behind the inputs of the
\* delays.
C14_DelayLowering ==
    [][/\ DelayRuns =>
            IF has(src', DelayOperand) /\ DelayOperandMx.symbolic
            THEN /\ walk' = "walking"
                 /\ delayed_states' =
                        Append(delayed_states,
                               [name |-> DelayOperandMx.name
                                            \o <<"_delayed_", DelayTime>>,
                                origin |-> DelayOperandMx.name,
                                delay |-> DelayTime])
                 /\ Len(inputs') = Len(inputs) + 1
                 /\ SubSeq(inputs', 1, Len(inputs)) = inputs
                 /\ mx'[inputs'[Len(inputs')].symbol]
                        = [symbolic |-> TRUE,
                           name |-> DelayOperandMx.name
                                       \o <<"_delayed_", DelayTime>>,
                           rows |-> DelayOperandMx.rows]
            ELSE /\ walk' # "walking"
                 /\ has(src', DelayOperand) => walk' = "NotImplementedError"
                 /\ delayed_states' = delayed_states
                 /\ inputs' = inputs
       /\ ClassExits =>
            /\ \A i \in 1..Len(inputs) : mx[inputs[i].symbol].name \in DelayedNames
            /\ SubSeq(inputs', 1, Len(inputs)) = inputs
            /\ \A i \in (Len(inputs) + 1)..Len(inputs') :
                  \E s \in NonEmptySymbols :
                      /\ inputs'[i].symbol = MxAfter(s)
                      /\ "input" \in s.prefixes]_vars

\* C14 witness: a class has been exited with the input of a delay ahead of a
\* declared input.
C14_Witness ==
    /\ walk = "exited"
    /\ Len(delayed_states) = 1
    /\ Len(inputs) = 2
    /\ inputs[1].prefixes = {}
    /\ "input" \in inputs[2].prefixes


(***************************************************************************)
(* Properties of the expansion of a Slice.                                 *)
(***************************************************************************)
\* the values start + k*step, k >= 0, that do not exceed stop, in order
UpToStop(start, step, stop) ==
    LET n == IF stop >= start THEN (stop - start) \div step + 1 ELSE 0
    IN [k \in 1..n |-> start + (k - 1) * step]

SliceExpanded == sliceCall # NoCall /\ sliceRet # Pending

\* C15: a Slice(start, step, stop) with integer operands and step > 0, and
\* the range of a for-loop, expand to exactly the values start + k*step
\* (k >= 0) that do not exceed stop: no element is greater than stop, and
\* stop < start gives the empty sequence.
C15_SliceStopsAtStop ==
    SliceExpanded =>
        /\ sliceRet.values
             = UpToStop(sliceCall.start, sliceCall.step, sliceCall.stop)
        /\ \A k \in DOMAIN sliceRet.values : sliceRet.values[k] <= sliceCall.stop
        /\ sliceCall.stop < sliceCall.start => sliceRet.values = <<>>

\* What the expansion is: the values start + k*step below stop + step.  It
\* is the sequence of the claim when stop - start is a multiple of step
\* (step 1 always), stop then being the last element, and when the range
\* is empty with stop + step <= start.
C15_SliceStopsBelowStopPlusStep ==
    SliceExpanded =>
        LET c == sliceCall
            v == sliceRet.values
        IN /\ \A k \in DOMAIN v : v[k] = c.start + (k - 1) * c.step
           /\ \A k \in DOMAIN v : v[k] < c.stop + c.step
           /\ c.start + Len(v) * c.step >= c.stop + c.step
           /\ (c.stop >= c.start /\ (c.stop - c.start) % c.step = 0)
                  => v = UpToStop(c.start, c.step, c.stop) /\ v[Len(v)] = c.stop
           /\ c.stop + c.step <= c.start => v = <<>>

\* an expansion with an element beyond stop
C15_Overshoot ==
    /\ SliceExpanded
    /\ \E k \in DOMAIN sliceRet.values : sliceRet.values[k] > sliceCall.stop


(***************************************************************************)
(* Properties of the check exitIfEquation makes.                           *)
(***************************************************************************)
IfEquationExited == ifCall.op = "exitIfEquation" /\ ifRet # Pending

\* C17: exitIfEquation fails for every IfEquation whose branches do not
\* all contribute the same number of equations, and lowers only
\* IfEquations whose branches have equal counts.
C17_UnequalBranchesRejected ==
    IfEquationExited => (ifRet.kind = "ok" <=> EqualBranches)

\* What exitIfEquation checks: the length of tree.equations is a multiple
\* of the number of branches.  Equal branches pass it, and so does every
\* other split of such a total.
C17_TotalCountChecked ==
    IfEquationExited =>
        /\ ifRet.kind = "ok" <=> ifCall.nitems % IfBranches = 0
        /\ EqualBranches => ifRet.kind = "ok"
        /\ ifRet.kind = "ok" => Len(ifRet.src) = IfPerBranch

\* one equation in the then-branch and three in the else-branch, lowered
C17_UnequalLowered ==
    /\ IfEquationExited
    /\ ifCall.branches = <<1, 3>>
    /\ ifRet.kind = "ok"
    /\ Len(ifRet.src) = 2


(***************************************************************************)
(* Properties of if-expression lowering.                                   *)
(***************************************************************************)
IfExpressionExited == ifCall.op = "exitIfExpression" /\ ifRet # Pending

\* if_else(cj, ej, if_else(c(j+1), e(j+1), ... if_else(ck, ek, e_else)))
RECURSIVE right_chain(_, _)
right_chain(j, k) ==
    IF j > k THEN leaf(k + 1)
    ELSE [op |-> "if_else", c |-> j, t |-> leaf(j), e |-> right_chain(j + 1, k)]

\* C18: an IfExpression with len(expressions) = len(conditions) + 1 lowers
\* to the right-associated chain if_else(c1, e1, if_else(c2, e2, ...
\* if_else(ck, ek, e_else))), which under every valuation of the conditions
\* evaluates to expressions[j] for the smallest j whose condition holds and
\* to the last expression when none holds; any other IfExpression is
\* rejected.
C18_IfExpressionChain ==
    IfExpressionExited =>
        IF ifCall.nitems = ifCall.nconds + 1
        THEN /\ ifRet.kind = "ok"
             /\ ifRet.src = <<right_chain(1, ifCall.nconds)>>
             /\ ifEval # Pending =>
                    ifEval.selected = <<BranchTaken(ifEval.truth)>>
        ELSE ifRet.kind = "AssertionError"

\* three conditions of which the second and the third hold: the second
\* expression is selected
C18_Witness ==
    /\ IfExpressionExited
    /\ ifCall.nconds = 3
    /\ ifCall.nitems = 4
    /\ ifEval # Pending
    /\ ifEval.truth = <<FALSE, TRUE, TRUE>>
    /\ ifEval.selected = <<2>>

\* an IfExpression with as many expressions as conditions, rejected
C18_WitnessRejected ==
    /\ IfExpressionExited
    /\ ifCall.nconds = 2
    /\ ifCall.nitems = 2
    /\ ifRet.kind = "AssertionError"


(***************************************************************************)
(* Properties of for-equation lowering.                                    *)
(***************************************************************************)
\* the for-equations the walker has exited
LoweredLoops ==
    {t \in 1..Len(ast) : ast[t].kind = "ForEquation" /\ has(src, t)}
LoopObject(t) == mx[get(src, t).h]
\* the values of the range 1:stop of a for-equation
RangeValues(t) == [j \in 1..int(ast[t].index.value) |-> j]
\* the scalar equations of the body: the elements of its lowered equations
RECURSIVE ScalarEquations(_)
ScalarEquations(equations) ==
    IF equations = <<>> THEN 0
    ELSE numel(mx[get(src, equations[1]).h]) + ScalarEquations(Tail(equations))
\* the references x[i] of the body of the loop t, i the index of t
IndexedRefs(t) ==
    {r \in 1..Len(ast) :
        /\ ast[r].kind = "ComponentRef"
        /\ ast[r].index = RefIndex(ast[t].name)
        /\ \E d \in DOMAIN ast[r].scope : ast[r].scope[d] = t
        /\ has(src, r)}
ModelEquations == {model.equations[k] : k \in DOMAIN model.equations}
ClassExited == walk \in {"exited", "done"}

\* C19: a for-equation whose range has n values and whose body has m
\* scalar equations lowers to n*m residuals, the instance for the j-th
\* value having the loop index bound to that value and each reference x[i]
\* bound to the element of x at that 1-based index; an empty range lowers
\* to an empty expression, which is no entry of Model.equations.
C19_ForEquationInstances ==
    \A t \in LoweredLoops :
        LET n == Len(RangeValues(t))
            m == ScalarEquations(for_equations(ast, t))
            o == LoopObject(t)
        IN /\ numel(o) = n * m
           /\ (n = 0 /\ ClassExited) => get(src, t).h \notin ModelEquations
           /\ n > 0 =>
                /\ o.rows = n /\ o.cols = m
                /\ Len(o.instances) = n
                /\ \A j \in 1..n :
                    /\ mx[o.instances[j].index[1]].symbolic
                    /\ mx[o.instances[j].index[1]].name = <<ast[t].name>>
                    /\ o.instances[j].index[2] = RangeValues(t)[j]
                    /\ o.instances[j].bound =
                          {<<get(src, r).h, get(nodes.names, ast[r].name),
                             RangeValues(t)[j] - 1>> : r \in IndexedRefs(t)}
           /\ (n * m > 0 /\ ast[t].scope = <<>> /\ ClassExited)
                  => get(src, t).h \in ModelEquations

\* for i in 1:2 loop x[i] = 0; x[i] = 0; end for: four residuals, one entry
\* of Model.equations
C19_Witness ==
    /\ walk = "done"
    /\ \E t \in LoweredLoops :
        /\ Len(RangeValues(t)) = 2
        /\ Len(for_equations(ast, t)) = 2
        /\ Cardinality(IndexedRefs(t)) = 2
        /\ numel(LoopObject(t)) = 4
        /\ model.equations = <<get(src, t).h>>

\* a for-equation over an empty range with an equation in its body, and no
\* entry of Model.equations
C19_WitnessEmpty ==
    /\ walk = "done"
    /\ model.equations = <<>>
    /\ \E t \in LoweredLoops :
        /\ RangeValues(t) = <<>>
        /\ for_equations(ast, t) # <<>>


(***************************************************************************)
(* Properties of generate called twice.                                    *)
(***************************************************************************)
\* the kernel objects the first run had created when the second began
RunBase == Len(run1.mx)
\* an object of the second run with the objects it refers to numbered from
\* the first object of the run: its form up to the identity of symbols
Canonical(o) ==
    IF "op" \notin DOMAIN o THEN o
    ELSE IF o.op = "sub"
    THEN [o EXCEPT !.args = <<@[1] - RunBase, @[2]>>]
    ELSE [o EXCEPT
             !.args = [e \in DOMAIN @ |-> @[e] - RunBase],
             !.instances =
                 [j \in DOMAIN @ |->
                     [index |-> <<@[j].index[1] - RunBase, @[j].index[2]>>,
                      bound |-> {<<b[1] - RunBase, b[2] - RunBase, b[3]>> :
                                    b \in @[j].bound}]]]
SecondRunDone == run1 # NoRun /\ walk = "done"

LaterCalls ==
    {p \in (DOMAIN function_calls) \X (DOMAIN function_calls) :
        /\ p[1] < p[2]
        /\ function_calls[p[1]].name = function_calls[p[2]].name
        /\ function_calls[p[1]].err = Ok}
FailedCalls == {k \in DOMAIN function_calls : function_calls[k].err # Ok}

\* C20: after get_function(name) has succeeded once, every later
\* get_function(name) returns the identical function object without
\* folding the body again or creating symbols, and a failed get_function
\* adds nothing to the cache.
C20_CachedByName ==
    /\ \A p \in LaterCalls :
          /\ function_calls[p[2]].err = Ok
          /\ function_calls[p[2]].ret = function_calls[p[1]].ret
          /\ ~function_calls[p[2]].folded
          /\ function_calls[p[2]].created = {}
    /\ \A k \in FailedCalls :
          function_calls[k].after = function_calls[k].before

\* What the cache does: the function is stored under the name of its class
\* (tree.name) and looked up under the name it is called by.  Later calls
\* return the identical object, with no fold, when the two are the same; a
\* function whose key in root.classes is not its class's name is folded
\* into a new object on every call.  No later call creates symbols, and a
\* failed call adds nothing.
C20_CachedByClassName ==
    /\ \A p \in LaterCalls :
          LET tree == get(root_classes, function_calls[p[1]].name)
              first == function_calls[p[1]]
              later == function_calls[p[2]]
          IN /\ later.err = Ok
             /\ later.created = {}
             /\ tree.name = first.name
                    => later.ret = first.ret /\ ~later.folded
             /\ tree.name # first.name
                    => later.ret # first.ret /\ later.folded
    /\ \A k \in FailedCalls :
          function_calls[k].after = function_calls[k].before

\* two calls of the same function that return two objects
C20_FoldedTwice ==
    \E p \in LaterCalls :
        /\ function_calls[p[2]].folded
        /\ function_calls[p[2]].ret # function_calls[p[1]].ret


(***************************************************************************)
(* Properties of ComponentRef.concatenate on objects with identity.        *)
(***************************************************************************)
AliasArguments == {aliasCall.args[k] : k \in DOMAIN aliasCall.args}
\* the objects of the arguments when concatenate was called, and those of
\* the result when it returned
ArgumentObjects == reachable(aliasPast.called, AliasArguments)
ResultObjects == reachable(aliasPast.returned, {aliasRet.value})
\* the objects of S are in heap h2 what they were in heap h1
SameObjects(S, h1, h2) == \A i \in S : h1[i] = h2[i]

\* C21: concatenate leaves every argument unchanged and returns a path that
\* shares no object with any argument, also when a ref is passed more than
\* once; mutating the result afterwards changes no argument and mutating an
\* argument afterwards does not change the result.
C21_ConcatenateSharesNothing ==
    aliasRet # Pending =>
        /\ SameObjects(ArgumentObjects, aliasPast.called, aliasPast.returned)
        /\ ResultObjects \cap ArgumentObjects = {}
        /\ aliasPast.kind = "result mutated"
               => SameObjects(ArgumentObjects, aliasPast.called, heap)
        /\ aliasPast.kind = "argument mutated"
               => SameObjects(ResultObjects, aliasPast.returned, heap)

\* concatenate(a.b, b, b) returned a.b.b.b, and the caller has emptied the
\* child list of the result's second node
C21_Witness ==
    /\ aliasRet # Pending
    /\ aliasCall.args = <<1, 5, 5>>
    /\ aliasPast.kind = "result mutated"
    /\ Cardinality(ResultObjects) = 4
    /\ \E i \in ResultObjects :
          /\ aliasPast.returned[i].name = "b"
          /\ aliasPast.returned[i].child # <<>>
          /\ heap[i].child = <<>>

\* the caller has renamed an object of an argument after the call
C21_WitnessArgument ==
    /\ aliasRet # Pending
    /\ aliasPast.kind = "argument mutated"
    /\ \E i \in ArgumentObjects : heap[i].name = "z"


(***************************************************************************)
(* Properties of the loop of find_class.                                   *)
(***************************************************************************)
FindReturned == finding # NoCall /\ finding.pc = "returned"
\* the k-th key looked up is the scope without its last k - 1 names,
\* followed by the names of the reference
KeyOfRound(k) ==
    SubSeq(finding.scope, 1, Len(finding.scope) - (k - 1)) \o finding.cref_tuple
FindMatched(k) == finding.tried[k] \in DOMAIN class_lookup.map

\* at most d + 1 lookups for a scope of d names, each with a scope prefix
\* one name shorter than the one before, none after a match; the call ends
\* with a class, or with an error once the empty prefix has been tried
FindLookupsBounded ==
    finding # NoCall =>
        /\ Len(finding.tried) <= Len(finding.scope) + 1
        /\ \A k \in DOMAIN finding.tried : finding.tried[k] = KeyOfRound(k)
        /\ \A k \in DOMAIN finding.tried :
              k < Len(finding.tried) => ~FindMatched(k)
        /\ FindReturned =>
              \/ /\ finding.ret.kind = "return"
                 /\ \/ finding.tried = <<>>
                    \/ FindMatched(Len(finding.tried))
              \/ /\ finding.ret.kind \in {"KeyError", "ClassNotFoundError"}
                 /\ Len(finding.tried) = Len(finding.scope) + 1
                 /\ finding.tried[Len(finding.tried)] = finding.cref_tuple
                 /\ ~FindMatched(Len(finding.tried))

\* C22: find_class always terminates: for a scope of length d it performs
\* at most d + 1 lookups, each with a strictly shorter scope prefix than
\* the one before, stops at the first match, and ends with a result or an
\* error once the empty prefix has been tried.
C22_FindClassTerminates == []FindLookupsBounded /\ <>FindReturned

\* a reference looked up from the scope P.P in three rounds, down to the
\* empty prefix, and not found
C22_Witness ==
    /\ FindReturned
    /\ Len(finding.scope) = 2
    /\ Len(finding.tried) = 3
    /\ finding.tried[3] = finding.cref_tuple
    /\ finding.ret.kind = "ClassNotFoundError"

\* a reference found in the second of three possible rounds
C22_WitnessFirstMatch ==
    /\ FindReturned
    /\ Len(finding.scope) = 2
    /\ Len(finding.tried) = 2
    /\ finding.ret.kind = "return"


(***************************************************************************)
(* Properties of the states and their derivatives at the exit of a class.  *)
(***************************************************************************)
\* the variable has an entry in the derivative table
HasDerivative(v) == has(derivative, v.symbol)
\* states and der_states have the same length, and der_states[i] is the
\* entry of the derivative table for states[i]
StatesAligned ==
    /\ Len(model.states) = Len(model.der_states)
    /\ \A i \in 1..Len(model.states) :
          /\ HasDerivative(model.states[i])
          /\ model.der_states[i].symbol
                 = get(derivative, model.states[i].symbol)
\* the variables of a list that have an entry in the derivative table
DifferentiatedIn(list) == {i \in 1..Len(list) : HasDerivative(list[i])}

\* C23: after the exit of a class that is no function, Model.states and
\* Model.der_states have the same length and are aligned, der_states[i]
\* being the symbol the derivative table records for states[i]; and no
\* variable in alg_states, constants, parameters or inputs has an entry in
\* the derivative table.
C23_StatesAlignedWithDerivatives ==
    walk = "exited" =>
        /\ StatesAligned
        /\ DifferentiatedIn(model.alg_states) = {}
        /\ DifferentiatedIn(model.constants) = {}
        /\ DifferentiatedIn(model.parameters) = {}
        /\ DifferentiatedIn(inputs) = {}

\* What exitClass keeps: the states are aligned with their derivatives and
\* no algebraic state is differentiated; a constant, parameter or input
\* that is differentiated has its derivative in none of the lists.
C23_StatesAligned ==
    walk = "exited" =>
        /\ StatesAligned
        /\ DifferentiatedIn(model.alg_states) = {}
        /\ \A f \in {"constants", "parameters"} :
             \A i \in DifferentiatedIn(model[f]) :
                get(derivative, model[f][i].symbol)
                    \notin SymbolsIn(model.der_states)
        /\ \A i \in DifferentiatedIn(inputs) :
                get(derivative, inputs[i].symbol)
                    \notin SymbolsIn(model.der_states)

\* a class has been exited with a differentiated state and its derivative
C23_Aligned ==
    /\ walk = "exited"
    /\ Len(model.states) = 1
    /\ Len(model.der_states) = 1
    /\ Len(model.alg_states) = 1

\* a class has been exited whose input is the operand of a der
C23_DerivativeOfInput ==
    /\ walk = "exited"
    /\ DifferentiatedIn(inputs) # {}
    /\ model.der_states = <<>>

=============================================================================
